---- MODULE Spec2Model ----
(***************************************************************************)
(* HappyLearn payment and chat back end.                                   *)
(*                                                                         *)
(*   Spec        the M-Pesa callback handler (supabase/functions/          *)
(*               mpesa-callback) over the payment_transactions and         *)
(*               subscriptions tables, with concurrent deliveries          *)
(*   SpecPaypal  the PayPal capture handler's subscription write           *)
(*   SpecRate    the chat endpoint's in-memory rate limiter                *)
(*   SpecMinute  the rate limiter observed over one 60000 ms interval      *)
(*   SpecChat    the chat handler: rate limit, body, gateway call          *)
(*   SpecInitiate  payment initiation (mpesa-stk-push, paypal-create-order)*)
(*   SpecPremium the page's useSubscription hook                           *)
(*   SpecReport  the studybuddy-report handler over activity_reports and   *)
(*               learner_skills, with concurrent requests                  *)
(*   SpecReportSequential  the same handler, one request at a time         *)
(*   SpecStop    the M-Pesa callback handler when a run can end between    *)
(*               its two updates                                           *)
(*   SpecRecapture  a further PayPal capture request for a captured order  *)
(*   SpecDaily   the page's useDailyQuestionLimit hook                     *)
(*                                                                         *)
(* Time is counted in hours since 2024-01-01T00:00Z (the code's Date       *)
(* values are milliseconds since 1970; both expiry computations keep the   *)
(* part of an instant below the hour unchanged).  Months are 0-based as in *)
(* the Date API.  The rate limiter's clock is in milliseconds.             *)
(* Proficiencies are counted in hundredths, scores and difficulties in     *)
(* tenths, so that 0.3 * (score - difficulty) is a whole number of         *)
(* hundredths.                                                             *)
(***************************************************************************)
EXTENDS Integers, Sequences, FiniteSets, TLC

VARIABLES
    env,            \* Deno.env MPESA_ENVIRONMENT of the deployment
    transactions,   \* table payment_transactions: id -> row
    subscriptions,  \* table subscriptions: id -> row
    handlers,       \* M-Pesa callback deliveries: id -> the handler's locals
    txWriters,      \* history: per transaction, the deliveries whose update was applied
    subWriters,     \* history: per subscription, the deliveries whose update was applied
    capture,        \* the PayPal capture request being handled
    rateLimitMap,   \* chat: identifier -> {count, resetAt} (or NoEntry)
    clock,          \* chat: Date.now() in ms
    lastCall,       \* chat: the latest checkRateLimit call and its result
    ordinal,        \* history: per identifier, calls made since its window opened
    chats,          \* chat: requests to the chat handler: id -> the handler's locals
    watch,          \* history: allowed checkRateLimit calls in one 60000 ms interval
    pushes,         \* payment initiation requests: id -> the handler's locals
    session,        \* the page's useSubscription hook: its state and its fetches
    reports,        \* studybuddy-report requests: id -> the handler's locals
    activity_reports, \* table activity_reports: the rows in insertion order
    learner_skills, \* table learner_skills: id -> row
    hydration_cache, \* table hydration_cache: the users that have a cached row
    daily           \* the page's useDailyQuestionLimit hook, localStorage and the date

vars == << env, transactions, subscriptions, handlers, txWriters, subWriters,
           capture, rateLimitMap, clock, lastCall, ordinal, chats, watch,
           pushes, session, reports, activity_reports, learner_skills,
           hydration_cache, daily >>

mpesaVars == << env, transactions, subscriptions, handlers, txWriters, subWriters >>
rateVars  == << rateLimitMap, clock, lastCall, ordinal >>
chatVars  == << chats, watch >>
reportVars == << reports, activity_reports, learner_skills, hydration_cache >>
restVars  == << chatVars, pushes, session, reportVars, daily >>

(***************************************************************************)
(* Bounds                                                                  *)
(***************************************************************************)
MaxDeliveries == 2      \* callback deliveries per behaviour (all may overlap)

NULL == "NULL"          \* null / undefined / absent

(***************************************************************************)
(* JSON values, as the handler sees them after req.json()                  *)
(***************************************************************************)
Undefined == [t |-> "undefined"]
JNull     == [t |-> "null"]
JNum(n)   == [t |-> "number", n |-> n]
JStr(s)   == [t |-> "string", s |-> s]
JObj(f)   == [t |-> "object", f |-> f]
JArr(a)   == [t |-> "array", a |-> a]

\* typeof v
TypeOf(v) ==
    IF v.t \in {"null", "array"} THEN "object" ELSE v.t

\* !!v
Truthy(v) ==
    CASE v.t \in {"undefined", "null"} -> FALSE
      [] v.t = "number" -> v.n # 0
      [] v.t = "string" -> v.s # ""
      [] OTHER -> TRUE

\* v[k] on something already known to be a non-null object (arrays have no such keys)
Get(v, k) ==
    IF v.t = "object" /\ k \in DOMAIN v.f THEN v.f[k] ELSE Undefined

(***************************************************************************)
(* Origin check.  Header text is a sequence of tokens: the octets and the  *)
(* separators ".", "," and " ".                                            *)
(***************************************************************************)
SAFARICOM_IP_PREFIXES ==
    { << "196", ".", "201", ".", "214", "." >>,
      << "196", ".", "201", ".", "213", "." >>,
      << "196", ".", "201", ".", "212", "." >>,
      << "41", ".", "215", ".", "125", "." >> }

\* s.split(",")[0]
RECURSIVE FirstEntry(_)
FirstEntry(s) ==
    IF s = << >> \/ Head(s) = "," THEN << >>
    ELSE << Head(s) >> \o FirstEntry(Tail(s))

RECURSIVE TrimStart(_)
TrimStart(s) ==
    IF s # << >> /\ Head(s) = " " THEN TrimStart(Tail(s)) ELSE s

RECURSIVE TrimEnd(_)
TrimEnd(s) ==
    IF s # << >> /\ s[Len(s)] = " " THEN TrimEnd(SubSeq(s, 1, Len(s) - 1)) ELSE s

Trim(s) == TrimEnd(TrimStart(s))

StartsWith(s, prefix) ==
    Len(s) >= Len(prefix) /\ SubSeq(s, 1, Len(prefix)) = prefix

\* a header: absent (headers.get gives null) or its text
NoHeader  == [present |-> FALSE, text |-> << >>]
Header(s) == [present |-> TRUE, text |-> s]

\* a || b on header values (null and "" are falsy)
OrElse(a, b) == IF ~a.present \/ a.text = << >> THEN b ELSE a

isValidSafaricomIPAnyEntry(ip) ==
    /\ ip.present
    /\ \E i \in 1..Len(ip.text) : \E prefix \in SAFARICOM_IP_PREFIXES :
          StartsWith(SubSeq(ip.text, i, Len(ip.text)), prefix)

isValidSafaricomIP(ip) ==
    IF ~ip.present \/ ip.text = << >> THEN FALSE
    ELSE LET clientIP == Trim(FirstEntry(ip.text))
         IN  \E prefix \in SAFARICOM_IP_PREFIXES : StartsWith(clientIP, prefix)

isSandbox(e) == e # "production"

(***************************************************************************)
(* Structure check                                                         *)
(***************************************************************************)
isValidCallbackStructure(body) ==
    IF ~Truthy(body) \/ TypeOf(body) # "object" THEN FALSE
    ELSE LET bodyObj == Get(body, "Body") IN
    IF ~Truthy(bodyObj) \/ TypeOf(bodyObj) # "object" THEN FALSE
    ELSE LET stk == Get(bodyObj, "stkCallback") IN
    IF ~Truthy(stk) \/ TypeOf(stk) # "object" THEN FALSE
    ELSE /\ TypeOf(Get(stk, "MerchantRequestID")) = "string"
         /\ TypeOf(Get(stk, "CheckoutRequestID")) = "string"
         /\ TypeOf(Get(stk, "ResultCode")) = "number"
         /\ TypeOf(Get(stk, "ResultDesc")) = "string"

(***************************************************************************)
(* The Date API as the handlers use it                                     *)
(***************************************************************************)
IsLeap(y) == (y % 4 = 0 /\ y % 100 # 0) \/ y % 400 = 0

DaysInMonth(y, m) ==
    CASE m = 1 -> IF IsLeap(y) THEN 29 ELSE 28
      [] m \in {3, 5, 8, 10} -> 30
      [] OTHER -> 31

DaysInYear(y) == IF IsLeap(y) THEN 366 ELSE 365

\* days from 2024-01-01 to the first day of year y
RECURSIVE DaysBeforeYear(_)
DaysBeforeYear(y) ==
    IF y <= 2024 THEN 0 ELSE DaysBeforeYear(y - 1) + DaysInYear(y - 1)

RECURSIVE DaysBeforeMonth(_, _)
DaysBeforeMonth(y, m) ==
    IF m = 0 THEN 0 ELSE DaysBeforeMonth(y, m - 1) + DaysInMonth(y, m - 1)

\* MakeDay(year, month, date): month may exceed 11 and date may exceed the
\* month's length; both carry over into what follows
MakeDay(y, m, d) ==
    LET ym == y + (m \div 12)
        mn == m % 12
    IN  DaysBeforeYear(ym) + DaysBeforeMonth(ym, mn) + d - 1

RECURSIVE CivilFromDay(_, _, _)
CivilFromDay(n, y, m) ==
    IF n >= DaysInMonth(y, m)
    THEN CivilFromDay(n - DaysInMonth(y, m),
                      IF m = 11 THEN y + 1 ELSE y,
                      IF m = 11 THEN 0 ELSE m + 1)
    ELSE [y |-> y, m |-> m, d |-> n + 1]

getFullYear(t) == CivilFromDay(t \div 24, 2024, 0).y
getMonth(t)    == CivilFromDay(t \div 24, 2024, 0).m
getDate(t)     == CivilFromDay(t \div 24, 2024, 0).d

setMonth(t, month) ==
    MakeDay(getFullYear(t), month, getDate(t)) * 24 + (t % 24)

setFullYear(t, year) ==
    MakeDay(year, getMonth(t), getDate(t)) * 24 + (t % 24)

\* the fields of the ISO-8601 text (UTC), down to the hour
toISOString(t) ==
    LET c == CivilFromDay(t \div 24, 2024, 0)
    IN  [y |-> c.y, m |-> c.m, d |-> c.d, h |-> t % 24]

\* new Date(Date.UTC(y, m, d, h)) for a calendar date
At(y, m, d, h) == MakeDay(y, m, d) * 24 + h

PlanTypes == {"monthly", "quarterly", "yearly"}

\* mpesa-callback: expiresAt for the subscription's plan
MpesaExpiresAt(plan_type, now) ==
    CASE plan_type = "monthly"   -> setMonth(now, getMonth(now) + 1)
      [] plan_type = "quarterly" -> setMonth(now, getMonth(now) + 3)
      [] plan_type = "yearly"    -> setFullYear(now, getFullYear(now) + 1)
      [] OTHER -> now

\* paypal capture: expiresAt for the plan named in the request
PaypalExpiresAt(plan_type, now) ==
    CASE plan_type = "monthly"   -> now + 30 * 24
      [] plan_type = "quarterly" -> now + 90 * 24
      [] plan_type = "yearly"    -> now + 365 * 24
      [] OTHER -> now + 30 * 24

(***************************************************************************)
(* M-Pesa callback: requests                                               *)
(***************************************************************************)
Deliveries == 1..MaxDeliveries

Envs == {"production", "sandbox", NULL}

SafaricomAddr == << "196", ".", "201", ".", "214", ".", "10" >>
SafaricomAddr2 == << "41", ".", "215", ".", "125", ".", "7" >>
ForeignAddr   == << "10", ".", "0", ".", "0", ".", "1" >>

\* the x-forwarded-for and x-real-ip headers of a request
Headers ==
    { [xff |-> NoHeader, xri |-> NoHeader],
      [xff |-> Header(SafaricomAddr \o << ",", " " >> \o ForeignAddr), xri |-> NoHeader],
      [xff |-> Header(ForeignAddr \o << ",", " " >> \o SafaricomAddr),
       xri |-> Header(SafaricomAddr)],
      [xff |-> Header(<< >>), xri |-> Header(<< " " >> \o SafaricomAddr2)],
      [xff |-> NoHeader, xri |-> Header(ForeignAddr)] }

KnownCheckout   == "ws_CO_1"
OtherCheckout   == "ws_CO_2"
UnknownCheckout == "ws_CO_9"

ListedAmount == [monthly |-> 499, quarterly |-> 1299, yearly |-> 4499]

Item(name, value) == JObj([Name |-> JStr(name), Value |-> value])

\* CallbackMetadata of a callback
Metadatas ==
    { Undefined,
      JObj([Item |-> JArr(<< Item("Amount", JNum(499)),
                             Item("MpesaReceiptNumber", JStr("RCPT1")) >>)]),
      JObj([Item |-> JArr(<< Item("Amount", JNum(1)),
                             Item("PhoneNumber", JNum(254)) >>)]),
      JObj([Item |-> JNum(5)]) }

StkBody(checkout, code, meta) ==
    JObj([Body |-> JObj([stkCallback |-> JObj(
        [MerchantRequestID |-> JStr("mr_1"),
         CheckoutRequestID |-> JStr(checkout),
         ResultCode        |-> JNum(code),
         ResultDesc        |-> JStr("desc"),
         CallbackMetadata  |-> meta])])])

ValidBodies ==
    { StkBody(KnownCheckout, 0, m) : m \in Metadatas }
    \cup { StkBody(KnownCheckout, 1032, Undefined),
           StkBody(UnknownCheckout, 0, Undefined) }

\* JSON bodies of another shape
MalformedBodies ==
    { JNull,
      JArr(<< >>),
      JObj([Body |-> JStr("x")]),
      JObj([Body |-> JObj([stkCallback |-> JNull])]),
      JObj([Body |-> JObj([stkCallback |-> JObj(
          [MerchantRequestID |-> JStr("mr_1"),
           CheckoutRequestID |-> JStr(KnownCheckout),
           ResultCode        |-> JStr("0"),
           ResultDesc        |-> JStr("desc")])])]),
      JObj([Body |-> JObj([stkCallback |-> JObj(
          [MerchantRequestID |-> JStr("mr_1"),
           ResultCode        |-> JNum(0),
           ResultDesc        |-> JStr("desc")])])]) }

\* a request body: text that parses to a JSON value, or text that does not
RawBodies ==
    { [json |-> TRUE, value |-> v] : v \in ValidBodies \cup MalformedBodies }
    \cup { [json |-> FALSE, value |-> Undefined] }

\* the instants at which a handler may run
Instants ==
    { At(2024, 0, 15, 9), At(2024, 0, 31, 13) }

(***************************************************************************)
(* M-Pesa callback: responses                                              *)
(***************************************************************************)
NoResponse       == [status |-> 0,   ResultCode |-> NULL, text |-> NULL]
Unauthorized     == [status |-> 403, ResultCode |-> NULL, text |-> "Unauthorized"]
InvalidFormat    == [status |-> 400, ResultCode |-> NULL, text |-> "Invalid callback format"]
NotFound         == [status |-> 200, ResultCode |-> NULL, text |-> "Transaction not found"]
AlreadyProcessed == [status |-> 200, ResultCode |-> "0",  text |-> "Already processed"]
Accepted         == [status |-> 200, ResultCode |-> "0",  text |-> "Accepted"]
ErrorProcessing  == [status |-> 200, ResultCode |-> "1",  text |-> "Error processing callback"]

(***************************************************************************)
(* M-Pesa callback: the success branch's CallbackMetadata loop             *)
(***************************************************************************)
\* for (const item of items): the locals after the loop, or that it threw
RECURSIVE ScanItems(_, _)
ScanItems(items, acc) ==
    IF items = << >> \/ acc.threw THEN acc
    ELSE LET item == Head(items) IN
         IF item.t \in {"undefined", "null"}
         THEN [acc EXCEPT !.threw = TRUE]
         ELSE IF Get(item, "Name") = JStr("MpesaReceiptNumber")
         THEN ScanItems(Tail(items), [acc EXCEPT !.mpesaReceipt = Get(item, "Value")])
         ELSE IF Get(item, "Name") = JStr("Amount")
         THEN ScanItems(Tail(items), [acc EXCEPT !.amount = Get(item, "Value")])
         ELSE ScanItems(Tail(items), acc)

ReadMetadata(CallbackMetadata) ==
    LET start == [threw |-> FALSE, mpesaReceipt |-> JStr(""), amount |-> JNum(0)]
        items == IF CallbackMetadata.t \in {"undefined", "null"} THEN Undefined
                 ELSE Get(CallbackMetadata, "Item")
    IN  IF ~Truthy(items) THEN start
        ELSE IF items.t = "array" THEN ScanItems(items.a, start)
        ELSE IF items.t = "string" THEN start
        ELSE [start EXCEPT !.threw = TRUE]

\* amount !== transaction.amount_kes
AmountMismatch(amount, amount_kes) ==
    ~(amount.t = "number" /\ amount.n = amount_kes)

\* String(ResultCode)
String(n) == CASE n = 0 -> "0" [] n = 1032 -> "1032" [] OTHER -> "?"

\* a JSON value stored in a text column
AsText(v) == IF v.t = "string" THEN v.s ELSE NULL

(***************************************************************************)
(* M-Pesa callback: tables and handler locals                              *)
(***************************************************************************)
TxIds  == {"tx1", "tx2"}
SubIds == {"sub1", "sub2"}

NoDate == [y |-> 0, m |-> 0, d |-> 0, h |-> 0]

\* the rows mpesa-stk-push inserts
PendingSubscription(plan) ==
    [user_id |-> "u1", plan_type |-> plan, status |-> "pending",
     amount_kes |-> ListedAmount[plan], payment_method |-> "mpesa",
     transaction_id |-> NULL, mpesa_receipt_number |-> NULL,
     starts_at |-> NoDate, expires_at |-> NoDate]

PendingTransaction(sub, checkout, amount) ==
    [subscription_id |-> sub, user_id |-> "u1", amount_kes |-> amount,
     payment_method |-> "mpesa", checkout_request_id |-> checkout,
     status |-> "pending", mpesa_receipt_number |-> NULL,
     result_code |-> NULL, result_desc |-> NULL]

\* select("*, subscriptions(*)"): a row with its id and its subscription's plan
NoRow == [id |-> NULL, subscription_id |-> NULL, amount_kes |-> 0,
          status |-> NULL, plan_type |-> NULL]

Joined(id) ==
    [id |-> id,
     subscription_id |-> transactions[id].subscription_id,
     amount_kes |-> transactions[id].amount_kes,
     status |-> transactions[id].status,
     plan_type |-> IF transactions[id].subscription_id \in SubIds
                   THEN subscriptions[transactions[id].subscription_id].plan_type
                   ELSE NULL]

Idle ==
    [pc |-> "idle", origin |-> FALSE, shape |-> NULL, parsed |-> FALSE,
     CheckoutRequestID |-> NULL, ResultCode |-> 0, CallbackMetadata |-> Undefined,
     transaction |-> NoRow, mpesaReceipt |-> JStr(""), amount |-> JNum(0),
     alert |-> FALSE, response |-> NoResponse, reads |-> 0, writes |-> 0]

Respond(h, r) == [h EXCEPT !.pc = "done", !.response = r]

(***************************************************************************)
(* What a request is, told apart from what the handler makes of it         *)
(***************************************************************************)
\* the sender's address: the first entry of x-forwarded-for, else x-real-ip
SenderAddress(hdr) ==
    LET h == IF hdr.xff.present /\ hdr.xff.text # << >> THEN hdr.xff ELSE hdr.xri
    IN  IF h.present THEN Trim(FirstEntry(h.text)) ELSE << >>

Allowlisted(hdr) ==
    \E prefix \in SAFARICOM_IP_PREFIXES : StartsWith(SenderAddress(hdr), prefix)

IsOfType(v, type) == v.t = type

\* the vendor's documented shape of a callback
VendorShape(raw) ==
    /\ raw.json
    /\ IsOfType(raw.value, "object")
    /\ "Body" \in DOMAIN raw.value.f
    /\ IsOfType(raw.value.f.Body, "object")
    /\ "stkCallback" \in DOMAIN raw.value.f.Body.f
    /\ LET stk == raw.value.f.Body.f.stkCallback IN
       /\ IsOfType(stk, "object")
       /\ {"MerchantRequestID", "CheckoutRequestID", "ResultCode", "ResultDesc"}
              \subseteq DOMAIN stk.f
       /\ IsOfType(stk.f.MerchantRequestID, "string")
       /\ IsOfType(stk.f.CheckoutRequestID, "string")
       /\ IsOfType(stk.f.ResultCode, "number")
       /\ IsOfType(stk.f.ResultDesc, "string")

ShapeOf(raw) ==
    IF ~raw.json THEN "not-json" ELSE IF VendorShape(raw) THEN "vendor" ELSE "other"

(***************************************************************************)
(* M-Pesa callback: the handler, one action per database statement         *)
(***************************************************************************)
NotFoundResponse404 == [NotFound EXCEPT !.status = 404]

NotFoundResponse == NotFound

AlreadyTerminalCompletedOnly(status) == status = "completed"

AlreadyTerminalFailedOnly(status) == status = "failed"

\* transaction.status === "completed" || transaction.status === "failed"
AlreadyTerminal(status) == status \in {"completed", "failed"}

NewTxStatusStrict(ResultCode, amount, amount_kes) ==
    IF ResultCode = 0 /\ ~AmountMismatch(amount, amount_kes) THEN "completed" ELSE "failed"

\* the status the handler writes to the transaction
NewTxStatus(ResultCode, amount, amount_kes) ==
    IF ResultCode = 0 THEN "completed" ELSE "failed"

\* the handler up to its first database statement: origin check, req.json(),
\* structure check, destructuring
Received(e, hdr, raw) ==
    LET clientIP      == OrElse(hdr.xff, hdr.xri)
        isSafaricomIP == isValidSafaricomIP(clientIP)
        h0 == [Idle EXCEPT !.origin = Allowlisted(hdr), !.shape = ShapeOf(raw)]
    IN  IF ~isSafaricomIP /\ ~isSandbox(e)
        THEN Respond(h0, Unauthorized)
        ELSE IF ~raw.json
        THEN Respond([h0 EXCEPT !.parsed = TRUE], ErrorProcessing)
        ELSE IF ~isValidCallbackStructure(raw.value)
        THEN Respond([h0 EXCEPT !.parsed = TRUE], InvalidFormat)
        ELSE LET stk == Get(Get(raw.value, "Body"), "stkCallback") IN
             [h0 EXCEPT !.pc = "find", !.parsed = TRUE,
                        !.CheckoutRequestID = Get(stk, "CheckoutRequestID").s,
                        !.ResultCode = Get(stk, "ResultCode").n,
                        !.CallbackMetadata = Get(stk, "CallbackMetadata")]

Receive(d) ==
    /\ handlers[d].pc = "idle"
    /\ IF d = 1 THEN TRUE ELSE handlers[d - 1].pc # "idle"
    /\ \E hdr \in Headers, raw \in RawBodies :
        handlers' = [handlers EXCEPT ![d] = Received(env, hdr, raw)]
    /\ UNCHANGED << env, transactions, subscriptions, txWriters, subWriters, capture, rateVars, restVars >>

\* the select ... .single(), then everything up to the first update
Find(d) ==
    /\ handlers[d].pc = "find"
    /\ \E findError \in BOOLEAN :
        LET h    == [handlers[d] EXCEPT !.reads = @ + 1]
            rows == { id \in TxIds :
                        transactions[id].checkout_request_id = h.CheckoutRequestID }
        IN  handlers' = [handlers EXCEPT ![d] =
              IF findError \/ Cardinality(rows) # 1
              THEN Respond(h, NotFoundResponse)
              ELSE LET transaction == Joined(CHOOSE id \in rows : TRUE)
                       found == [h EXCEPT !.transaction = transaction]
                       meta  == ReadMetadata(h.CallbackMetadata)
                   IN  IF AlreadyTerminal(transaction.status)
                       THEN Respond(found, AlreadyProcessed)
                       ELSE IF h.ResultCode # 0
                       THEN [found EXCEPT !.pc = "updateTx"]
                       ELSE IF meta.threw
                       THEN Respond(found, ErrorProcessing)
                       ELSE [found EXCEPT
                               !.pc = "updateTx",
                               !.mpesaReceipt = meta.mpesaReceipt,
                               !.amount = meta.amount,
                               !.alert = AmountMismatch(meta.amount, transaction.amount_kes)]]
    /\ UNCHANGED << env, transactions, subscriptions, txWriters, subWriters, capture, rateVars, restVars >>

\* update payment_transactions ... .eq("id", transaction.id)
UpdateTransaction(d) ==
    /\ handlers[d].pc = "updateTx"
    /\ LET h  == handlers[d]
           id == h.transaction.id
       IN  /\ transactions' = [transactions EXCEPT ![id] =
                IF h.ResultCode = 0
                THEN [@ EXCEPT
                       !.status = NewTxStatus(h.ResultCode, h.amount, h.transaction.amount_kes),
                       !.mpesa_receipt_number = AsText(h.mpesaReceipt),
                       !.result_code = String(h.ResultCode),
                       !.result_desc = "desc"]
                ELSE [@ EXCEPT
                       !.status = NewTxStatus(h.ResultCode, h.amount, h.transaction.amount_kes),
                       !.result_code = String(h.ResultCode),
                       !.result_desc = "desc"]]
           /\ txWriters' = [txWriters EXCEPT ![id] = @ \cup {d}]
           /\ handlers' = [handlers EXCEPT ![d] =
                             [h EXCEPT !.pc = "updateSub", !.writes = @ + 1]]
    /\ UNCHANGED << env, subscriptions, subWriters, capture, rateVars, restVars >>

\* new Date(), the expiry, update subscriptions ... .eq("id", subscription_id), the
\* acknowledgement
UpdateSubscription(d) ==
    /\ handlers[d].pc = "updateSub"
    /\ LET h  == handlers[d]
           id == h.transaction.subscription_id
       IN  \E now \in Instants :
            LET expiresAt == MpesaExpiresAt(h.transaction.plan_type, now) IN
            /\ subscriptions' =
                 IF id \notin SubIds THEN subscriptions
                 ELSE [subscriptions EXCEPT ![id] =
                        IF h.ResultCode = 0
                        THEN [@ EXCEPT !.status = "active",
                                       !.mpesa_receipt_number = AsText(h.mpesaReceipt),
                                       !.starts_at = toISOString(now),
                                       !.expires_at = toISOString(expiresAt)]
                        ELSE [@ EXCEPT !.status = "cancelled"]]
            /\ subWriters' = IF id \in SubIds
                             THEN [subWriters EXCEPT ![id] = @ \cup {d}]
                             ELSE subWriters
            /\ handlers' = [handlers EXCEPT ![d] =
                              Respond([h EXCEPT !.writes = @ + 1], Accepted)]
    /\ UNCHANGED << env, transactions, txWriters, capture, rateVars, restVars >>

(***************************************************************************)
(* The other subsystems before any of their requests                       *)
(***************************************************************************)
MaxCaptures == 1        \* PayPal capture requests per behaviour

Captures == 1..MaxCaptures

NoCapture ==
    [pc |-> "idle", user |-> NULL, order_id |-> NULL, plan_type |-> NULL, amount_kes |-> 0,
     captured |-> FALSE, txFindError |-> FALSE, now |-> 0, subscription_id |-> 0,
     status |-> 0, error |-> NULL]

CaptureQuiet == capture = [c \in Captures |-> NoCapture]

Identifiers == {"ip1", "ip2"}

NoEntry  == [present |-> FALSE, count |-> 0, resetAt |-> 0]
NoCall   == [made |-> FALSE, identifier |-> NULL, now |-> 0, allowed |-> FALSE,
             before |-> NoEntry]
NoWindow == [open |-> FALSE, calls |-> 0, resetAt |-> 0]

RateQuiet ==
    /\ rateLimitMap = [k \in Identifiers |-> NoEntry]
    /\ clock = 0
    /\ lastCall = NoCall
    /\ ordinal = [k \in Identifiers |-> NoWindow]

MaxChats == 1           \* requests to the chat handler per behaviour (all may overlap)

Chats == 1..MaxChats

NoBody == [json |-> FALSE, value |-> Undefined]

NoChat ==
    [pc |-> "idle", method |-> NULL, clientIp |-> << >>, body |-> NoBody,
     typed |-> Undefined, at |-> 0,
     checked |-> FALSE, allowed |-> FALSE, before |-> NoEntry, after |-> NoEntry,
     parsed |-> FALSE, gatewayCalls |-> 0, forwarded |-> << >>, status |-> 0]

NoWatch == [open |-> FALSE, start |-> 0, calls |-> 0]

ChatQuiet ==
    /\ chats = [q \in Chats |-> NoChat]
    /\ watch = NoWatch

MaxPushes == 1          \* payment initiation requests per behaviour (all may overlap)

Pushes == 1..MaxPushes

NoPush ==
    [pc |-> "idle", kind |-> NULL, token |-> NULL, user |-> NULL, body |-> NoBody,
     credentials |-> FALSE, fromPage |-> FALSE, vendorCalls |-> 0, checkout |-> NULL,
     subscription_id |-> 0, transaction_id |-> 0,
     status |-> 0, success |-> FALSE, error |-> NULL]

PushQuiet == pushes = [p \in Pushes |-> NoPush]

MaxFetches == 2         \* fetchSubscription calls per behaviour (all may overlap)

Fetches == 1..MaxFetches

NoSubscription == [user_id |-> NULL, status |-> NULL, expires_at |-> NoDate]
NoFetch == [pc |-> "idle", user |-> NULL]
NoCompletion == [user |-> NULL, now |-> 0]

\* useState(null), useState(true), useState(false); no user yet
NoSession ==
    [user |-> NULL, subscription |-> NoSubscription, loading |-> TRUE, isPremium |-> FALSE,
     completed |-> NoCompletion, fetches |-> [f \in Fetches |-> NoFetch]]

SessionQuiet == session = NoSession

MaxReports == 2         \* studybuddy-report requests per behaviour (all may overlap)

Reports == 1..MaxReports

NoReport ==
    [pc |-> "idle", token |-> NULL, user |-> NULL, body |-> NoBody,
     activity_id |-> NULL, skill_code |-> NULL, score |-> 0, difficulty |-> 0,
     reported |-> 0, existingSkill |-> 0, currentProf |-> 0, newProf |-> 0, wrote |-> 0,
     status |-> 0, success |-> FALSE, error |-> NULL]

ReportQuiet ==
    /\ reports = [r \in Reports |-> NoReport]
    /\ activity_reports = << >>
    /\ learner_skills = << >>
    /\ hydration_cache = {}

NoUsage == [present |-> FALSE, date |-> 0, count |-> 0]

\* useState(0), useState(true); nothing in localStorage; day 0
NoDaily ==
    [isPremium |-> FALSE, questionsUsed |-> 0, canAskQuestion |-> TRUE,
     stored |-> NoUsage, today |-> 0, countedToday |-> 0, calls |-> 0]

DailyQuiet == daily = NoDaily

RestQuiet ==
    /\ ChatQuiet
    /\ PushQuiet
    /\ SessionQuiet
    /\ ReportQuiet
    /\ DailyQuiet

MpesaQuiet ==
    /\ env = "sandbox"
    /\ handlers = [d \in Deliveries |-> Idle]
    /\ txWriters = [id \in TxIds |-> {}]
    /\ subWriters = [s \in SubIds |-> {}]

Init ==
    /\ env \in Envs
    /\ \E plan \in PlanTypes :
        /\ subscriptions = [s \in SubIds |->
              IF s = "sub1" THEN PendingSubscription(plan)
              ELSE PendingSubscription("monthly")]
        /\ transactions = [id \in TxIds |->
              IF id = "tx1"
              THEN PendingTransaction("sub1", KnownCheckout, ListedAmount[plan])
              ELSE PendingTransaction("sub2", OtherCheckout, ListedAmount["monthly"])]
    /\ handlers = [d \in Deliveries |-> Idle]
    /\ txWriters = [id \in TxIds |-> {}]
    /\ subWriters = [s \in SubIds |-> {}]
    /\ CaptureQuiet
    /\ RateQuiet
    /\ RestQuiet

Next ==
    \E d \in Deliveries :
        \/ Receive(d)
        \/ Find(d)
        \/ UpdateTransaction(d)
        \/ UpdateSubscription(d)

Spec == Init /\ [][Next]_vars

(***************************************************************************)
(* M-Pesa callback: properties                                             *)
(***************************************************************************)
Started(d)    == handlers[d].pc # "idle"
Finished(d)   == handlers[d].pc = "done"
PassedGate(d) == Started(d) /\ handlers[d].response # Unauthorized
Looked(d)     == handlers[d].transaction.id # NULL   \* the lookup gave the handler a row
Wrote(d) ==
    \/ handlers[d].writes > 0
    \/ \E id \in TxIds : d \in txWriters[id]
    \/ \E s \in SubIds : d \in subWriters[s]

\* C1: a callback whose lookup finds its transaction already 'completed' or 'failed'
\* issues no update and is answered 200 "Already processed", whatever its ResultCode
\* and for every repetition
C1_ReplayIsIdempotent ==
    \A d \in Deliveries :
        (Looked(d) /\ handlers[d].transaction.status \in {"completed", "failed"})
        => /\ Finished(d)
           /\ handlers[d].response = AlreadyProcessed
           /\ handlers[d].response.status = 200
           /\ ~Wrote(d)

\* a replay carrying a failure code against a transaction another delivery completed
C1_Witness ==
    \E d \in Deliveries :
        /\ Finished(d) /\ Looked(d)
        /\ handlers[d].transaction.status = "completed"
        /\ handlers[d].ResultCode # 0
        /\ handlers[d].response = AlreadyProcessed
        /\ txWriters["tx1"] # {} /\ d \notin txWriters["tx1"]

\* C2: for any number of deliveries with one CheckoutRequestID, concurrent ones
\* included, at most one writes the transaction row and at most one sets the
\* subscription
C2_WrittenAtMostOnce ==
    /\ \A id \in TxIds : Cardinality(txWriters[id]) <= 1
    /\ \A s \in SubIds : Cardinality(subWriters[s]) <= 1

\* per environment: what the handler makes of a request is what it makes of the same
\* body sent from an allowlisted address
SameAsFromAllowlisted ==
    [e \in Envs |->
        \A hdr \in Headers, good \in { g \in Headers : Allowlisted(g) }, raw \in RawBodies :
            [Received(e, hdr, raw) EXCEPT !.origin = TRUE] = Received(e, good, raw)]

\* C3: in production a callback from a missing or non-allowlisted address is answered
\* 403 with the body unparsed and no database statement; under any other
\* MPESA_ENVIRONMENT every request gets past the origin check, and what the handler
\* makes of it is what it makes of the same body sent from an allowlisted address
C3_OriginGate ==
    /\ \A d \in Deliveries :
        /\ (Started(d) /\ env = "production" /\ ~handlers[d].origin)
           => /\ Finished(d)
              /\ handlers[d].response.status = 403
              /\ ~handlers[d].parsed
              /\ handlers[d].reads = 0
              /\ ~Wrote(d)
        /\ (Started(d) /\ (env # "production" \/ handlers[d].origin))
           => /\ handlers[d].response.status # 403
              /\ handlers[d].parsed
    /\ env # "production" => SameAsFromAllowlisted[env]

\* in production, a request whose first x-forwarded-for entry is foreign is refused
\* although a later entry is a Safaricom address
C3_Witness ==
    /\ env = "production"
    /\ \E d \in Deliveries :
        /\ Finished(d) /\ ~handlers[d].origin
        /\ handlers[d].response = Unauthorized
    /\ \E d \in Deliveries :
        /\ Finished(d) /\ handlers[d].origin
        /\ handlers[d].response = Accepted

\* C4: a callback past the origin check whose body is not of the vendor's shape, be
\* it JSON of another shape or no JSON at all, is answered 400 and causes no database
\* statement
C4_BadShapeIs400 ==
    \A d \in Deliveries :
        (PassedGate(d) /\ handlers[d].shape # "vendor")
        => /\ Finished(d)
           /\ handlers[d].response.status = 400
           /\ handlers[d].reads = 0
           /\ ~Wrote(d)

\* C5: a callback past the origin check and the structure check is acknowledged with
\* HTTP 200 and the success envelope (ResultCode 0), whatever happens while it is
\* processed
C5_AlwaysSuccessEnvelope ==
    \A d \in Deliveries :
        (Finished(d) /\ PassedGate(d) /\ handlers[d].shape = "vendor")
        => /\ handlers[d].response.status = 200
           /\ handlers[d].response.ResultCode = "0"

\* C6: a structurally valid callback whose CheckoutRequestID matches no stored
\* transaction, or whose lookup fails, is answered 200 and changes no row
C6_NotFoundIs200 ==
    \A d \in Deliveries :
        (Finished(d) /\ handlers[d].reads > 0
            /\ ( ~Looked(d)
                 \/ \A id \in TxIds : transactions[id].checkout_request_id
                                         # handlers[d].CheckoutRequestID ))
        => /\ handlers[d].response.status = 200
           /\ ~Looked(d)
           /\ ~Wrote(d)

\* both ways of not finding: an unknown CheckoutRequestID, and a failed lookup of a
\* known one
C6_Witness ==
    /\ \E d \in Deliveries :
        /\ Finished(d) /\ handlers[d].CheckoutRequestID = UnknownCheckout
        /\ handlers[d].response.status = 200
    /\ \E d \in Deliveries :
        /\ Finished(d) /\ handlers[d].CheckoutRequestID = KnownCheckout
        /\ handlers[d].reads > 0 /\ ~Looked(d)
        /\ handlers[d].response.status = 200
    /\ transactions["tx1"].status = "pending"

\* CallbackMetadata that reports an amount, a different one, or none
ReportsAmountOrNone(meta) ==
    \/ meta = Undefined
    \/ /\ meta.t = "object" /\ "Item" \in DOMAIN meta.f
       /\ meta.f.Item.t = "array"
       /\ \A i \in 1..Len(meta.f.Item.a) : meta.f.Item.a[i].t = "object"

\* d is the one delivery that has acted on the transaction it found
FirstCallback(d) ==
    /\ Finished(d) /\ Looked(d)
    /\ handlers[d].transaction.status = "pending"
    /\ ReportsAmountOrNone(handlers[d].CallbackMetadata)
    /\ txWriters[handlers[d].transaction.id] \subseteq {d}
    /\ subWriters[handlers[d].transaction.subscription_id] \subseteq {d}

\* C7: the first callback for a pending transaction is decided by ResultCode alone:
\* 0 leaves the transaction 'completed' and the subscription 'active' whatever
\* amount is reported; anything else leaves them 'failed' and 'cancelled'
C7_ResultCodeDecides ==
    \A d \in Deliveries :
        FirstCallback(d)
        => LET tx  == transactions[handlers[d].transaction.id]
               sub == subscriptions[handlers[d].transaction.subscription_id]
           IN  /\ handlers[d].response = Accepted
               /\ handlers[d].ResultCode = 0
                  => tx.status = "completed" /\ sub.status = "active"
               /\ handlers[d].ResultCode # 0
                  => tx.status = "failed" /\ sub.status = "cancelled"

\* a first callback that reports another amount than the expected one, logged and
\* credited
C7_Witness ==
    \E d \in Deliveries :
        /\ FirstCallback(d)
        /\ handlers[d].ResultCode = 0
        /\ handlers[d].amount = JNum(1)
        /\ handlers[d].alert
        /\ transactions["tx1"].status = "completed"
        /\ subscriptions["sub1"].status = "active"

\* adding k calendar months, a day the target month lacks becoming its last day
RECURSIVE AddCalendarMonths(_, _)
AddCalendarMonths(date, k) ==
    IF k = 0
    THEN [date EXCEPT !.d = IF date.d > DaysInMonth(date.y, date.m)
                            THEN DaysInMonth(date.y, date.m) ELSE date.d]
    ELSE AddCalendarMonths(
            [date EXCEPT !.y = IF date.m = 11 THEN date.y + 1 ELSE date.y,
                         !.m = IF date.m = 11 THEN 0 ELSE date.m + 1], k - 1)

CalendarExpiry(plan_type, starts_at) ==
    CASE plan_type = "monthly"   -> AddCalendarMonths(starts_at, 1)
      [] plan_type = "quarterly" -> AddCalendarMonths(starts_at, 3)
      [] plan_type = "yearly"    -> AddCalendarMonths(starts_at, 12)

\* C8: an activated subscription expires exactly one calendar month (monthly), three
\* (quarterly) or twelve (yearly) after starts_at, days clamped to the month's end
C8_CalendarExpiry ==
    \A s \in SubIds :
        subscriptions[s].status = "active"
        => subscriptions[s].expires_at
              = CalendarExpiry(subscriptions[s].plan_type, subscriptions[s].starts_at)

(***************************************************************************)
(* PayPal capture (paypal-capture-order)                                   *)
(***************************************************************************)
Users == {"u1", "u2"}

\* Authorization header: none, a token auth.getUser() rejects, or a user's token
Tokens == {"none", "invalid"} \cup Users

\* paypal-create-order: validAmounts
PaypalAmounts == [monthly |-> 249, quarterly |-> 599, yearly |-> 1799]

PaypalOrder  == "ORDER1"
UnknownOrder == "ORDER9"

\* the row paypal-create-order inserts
InitiatedTransaction(user, order, amount) ==
    [subscription_id |-> NULL, user_id |-> user, amount_kes |-> amount,
     payment_method |-> "paypal", checkout_request_id |-> order,
     status |-> "initiated", mpesa_receipt_number |-> NULL,
     result_code |-> NULL, result_desc |-> "PayPal order"]

isValidPlanType(plan) == plan \in {"monthly", "quarterly", "yearly"}

Answer(c, status, error) == [c EXCEPT !.pc = "done", !.status = status, !.error = error]

\* authentication, body validation, the OAuth token and the capture call to PayPal
BeginCapture(c) ==
    /\ capture[c].pc = "idle"
    /\ \E token \in Tokens,
          order_id \in {NULL, PaypalOrder, UnknownOrder},
          plan_type \in PlanTypes \cup {NULL, "weekly"},
          amount_kes \in {0, PaypalAmounts["monthly"]},
          paypal \in {"no-token", "refused", "PENDING", "COMPLETED"} :
        LET req == [capture[c] EXCEPT
                      !.user = IF token \in Users THEN token ELSE NULL,
                      !.order_id = order_id, !.plan_type = plan_type,
                      !.amount_kes = amount_kes]
        IN  capture' = [capture EXCEPT ![c] =
              IF token = "none"
              THEN Answer(capture[c], 401, "Authentication required")
              ELSE IF token = "invalid"
              THEN Answer(capture[c], 401, "Invalid or expired authentication token")
              ELSE IF order_id = NULL
              THEN Answer(req, 400, "Missing order ID")
              ELSE IF plan_type = NULL \/ ~isValidPlanType(plan_type)
              THEN Answer(req, 400, "Invalid plan type")
              ELSE IF paypal = "no-token"
              THEN Answer(req, 500, "Failed to authenticate with PayPal")
              ELSE IF paypal = "refused"
              THEN Answer(req, 500, "Failed to capture PayPal payment")
              ELSE IF paypal # "COMPLETED"
              THEN Answer(req, 400, "Payment not completed")
              ELSE [req EXCEPT !.pc = "findTx", !.captured = TRUE]]
    /\ UNCHANGED << mpesaVars, rateVars, restVars >>

FindCaptureTransactionAnyOwner(c) ==
    /\ capture[c].pc = "findTx"
    /\ \E txFindError \in BOOLEAN, now \in Instants :
        LET rows == { id \in DOMAIN transactions :
                        transactions[id].checkout_request_id = capture[c].order_id }
            r == [capture[c] EXCEPT !.txFindError = txFindError]
        IN  capture' = [capture EXCEPT ![c] =
              IF txFindError \/ Cardinality(rows) # 1
              THEN Answer(r, 404, "Transaction not found")
              ELSE [r EXCEPT !.pc = "insertSub", !.now = now]]
    /\ UNCHANGED << mpesaVars, rateVars, restVars >>

\* select user_id ... .eq("checkout_request_id", order_id).single(), the ownership
\* check, new Date()
FindCaptureTransaction(c) ==
    /\ capture[c].pc = "findTx"
    /\ \E txFindError \in BOOLEAN, now \in Instants :
        LET rows == { id \in DOMAIN transactions :
                        transactions[id].checkout_request_id = capture[c].order_id }
            r == [capture[c] EXCEPT !.txFindError = txFindError]
        IN  capture' = [capture EXCEPT ![c] =
              IF txFindError \/ Cardinality(rows) # 1
              THEN Answer(r, 404, "Transaction not found")
              ELSE IF transactions[CHOOSE id \in rows : TRUE].user_id # r.user
              THEN Answer(r, 403, "Unauthorized access to transaction")
              ELSE [r EXCEPT !.pc = "insertSub", !.now = now]]
    /\ UNCHANGED << mpesaVars, rateVars, restVars >>

\* insert into subscriptions ... .select().single()
InsertCaptureSubscription(c) ==
    /\ capture[c].pc = "insertSub"
    /\ \E subError \in BOOLEAN :
        IF subError
        THEN /\ capture' = [capture EXCEPT ![c] =
                  Answer(capture[c], 500, "Failed to create subscription")]
             /\ UNCHANGED subscriptions
        ELSE /\ subscriptions' = Append(subscriptions,
                  [user_id |-> capture[c].user,
                   plan_type |-> capture[c].plan_type,
                   status |-> "active",
                   amount_kes |-> capture[c].amount_kes,
                   payment_method |-> "paypal",
                   transaction_id |-> "CAPTURE1",
                   mpesa_receipt_number |-> NULL,
                   starts_at |-> toISOString(capture[c].now),
                   expires_at |-> toISOString(
                       PaypalExpiresAt(capture[c].plan_type, capture[c].now))])
             /\ capture' = [capture EXCEPT ![c] =
                  [@ EXCEPT !.pc = "updateTx", !.subscription_id = Len(subscriptions) + 1]]
    /\ UNCHANGED << env, transactions, handlers, txWriters, subWriters, rateVars, restVars >>

\* update payment_transactions ... .eq("checkout_request_id", order_id), the answer
UpdateCaptureTransaction(c) ==
    /\ capture[c].pc = "updateTx"
    /\ transactions' = [id \in DOMAIN transactions |->
          IF transactions[id].checkout_request_id = capture[c].order_id
          THEN [transactions[id] EXCEPT
                  !.status = "completed",
                  !.result_code = "0",
                  !.result_desc = "Payment successful",
                  !.mpesa_receipt_number = "CAPTURE1",
                  !.subscription_id = capture[c].subscription_id]
          ELSE transactions[id]]
    /\ capture' = [capture EXCEPT ![c] = Answer(@, 200, NULL)]
    /\ UNCHANGED << env, subscriptions, handlers, txWriters, subWriters, rateVars, restVars >>

InitPaypal ==
    /\ transactions = [id \in {"ptx1"} |->
          InitiatedTransaction("u1", PaypalOrder, PaypalAmounts["monthly"])]
    /\ subscriptions = << >>
    /\ MpesaQuiet
    /\ CaptureQuiet
    /\ RateQuiet
    /\ RestQuiet

NextPaypal ==
    \E c \in Captures :
        \/ BeginCapture(c)
        \/ FindCaptureTransaction(c)
        \/ InsertCaptureSubscription(c)
        \/ UpdateCaptureTransaction(c)

SpecPaypal == InitPaypal /\ [][NextPaypal]_vars

\* the stored transactions with checkout_request_id = order_id
StoredFor(order_id) ==
    { id \in DOMAIN transactions : transactions[id].checkout_request_id = order_id }

\* the capture requests that inserted a subscription
Inserters == { c \in Captures : capture[c].subscription_id # 0 }

\* C18: a capture request inserts a subscription and updates a transaction only when
\* a stored transaction with checkout_request_id = order_id exists and belongs to the
\* caller; with no such transaction it answers 404, with another user's transaction
\* 403 (the lookup having worked), and then it has inserted and changed nothing
C18_OwnerOnlyCapture ==
    /\ Len(subscriptions) = Cardinality(Inserters)
    /\ (\A c \in Captures : capture[c].status # 200)
          => transactions = [id \in {"ptx1"} |->
                InitiatedTransaction("u1", PaypalOrder, PaypalAmounts["monthly"])]
    /\ \A c \in Captures :
        LET r == capture[c]
            looked == r.captured /\ r.pc # "findTx"
        IN  /\ (r.pc \in {"insertSub", "updateTx"} \/ r.subscription_id # 0 \/ r.status = 200)
                  => \E id \in StoredFor(r.order_id) : transactions[id].user_id = r.user
            /\ (looked /\ StoredFor(r.order_id) = {})
                  => r.pc = "done" /\ r.status = 404 /\ r.subscription_id = 0
            /\ (looked /\ ~r.txFindError
                    /\ \E id \in StoredFor(r.order_id) : transactions[id].user_id # r.user)
                  => r.pc = "done" /\ r.status = 403 /\ r.subscription_id = 0
            /\ r.status \in {403, 404} => r.subscription_id = 0

\* u2 tried to capture u1's completed order and was answered 403
C18_Witness ==
    \E c \in Captures :
        /\ capture[c].user = "u2"
        /\ capture[c].order_id = PaypalOrder
        /\ capture[c].captured
        /\ capture[c].status = 403
        /\ subscriptions = << >>

\* C9: the expires_at a PayPal capture writes is the one the M-Pesa callback would
\* write for that plan at that instant
C9_SameExpiryAsMpesa ==
    \A c \in Captures :
        capture[c].subscription_id \in DOMAIN subscriptions
        => subscriptions[capture[c].subscription_id].expires_at
              = toISOString(MpesaExpiresAt(capture[c].plan_type, capture[c].now))

(***************************************************************************)
(* Chat endpoint: the in-memory rate limiter                               *)
(***************************************************************************)
RATE_LIMIT  == 50
RATE_WINDOW == 60000

MaxTicks == 3            \* the clock runs to MaxTicks half windows
MaxCallsPerWindow == 52  \* calls with one identifier before its window is over

TickMs == RATE_WINDOW \div 2

checkRateLimitAtReset(map, identifier, now) ==
    LET limit == map[identifier] IN
    IF ~limit.present \/ now >= limit.resetAt
    THEN [map |-> [map EXCEPT ![identifier] =
                     [present |-> TRUE, count |-> 1, resetAt |-> now + RATE_WINDOW]],
          allowed |-> TRUE]
    ELSE IF limit.count >= RATE_LIMIT
    THEN [map |-> map, allowed |-> FALSE]
    ELSE [map |-> [map EXCEPT ![identifier].count = @ + 1], allowed |-> TRUE]

checkRateLimitUncounted(map, identifier, now) ==
    LET limit == map[identifier] IN
    IF ~limit.present \/ now > limit.resetAt
    THEN [map |-> [map EXCEPT ![identifier] =
                     [present |-> TRUE, count |-> 1, resetAt |-> now + RATE_WINDOW]],
          allowed |-> TRUE]
    ELSE IF limit.count >= RATE_LIMIT
    THEN [map |-> map, allowed |-> FALSE]
    ELSE [map |-> map, allowed |-> TRUE]

checkRateLimitCountsDenied(map, identifier, now) ==
    LET limit == map[identifier] IN
    IF ~limit.present \/ now > limit.resetAt
    THEN [map |-> [map EXCEPT ![identifier] =
                     [present |-> TRUE, count |-> 1, resetAt |-> now + RATE_WINDOW]],
          allowed |-> TRUE]
    ELSE IF limit.count >= RATE_LIMIT
    THEN [map |-> [map EXCEPT ![identifier].count = @ + 1], allowed |-> FALSE]
    ELSE [map |-> [map EXCEPT ![identifier].count = @ + 1], allowed |-> TRUE]

\* checkRateLimit(identifier) at Date.now() = now: the map afterwards and the result
checkRateLimit(map, identifier, now) ==
    LET limit == map[identifier] IN
    IF ~limit.present \/ now > limit.resetAt
    THEN [map |-> [map EXCEPT ![identifier] =
                     [present |-> TRUE, count |-> 1, resetAt |-> now + RATE_WINDOW]],
          allowed |-> TRUE]
    ELSE IF limit.count >= RATE_LIMIT
    THEN [map |-> map, allowed |-> FALSE]
    ELSE [map |-> [map EXCEPT ![identifier].count = @ + 1], allowed |-> TRUE]

\* the window as the calls themselves define it: it opens with the first call and
\* with the first call after its end, and every call in between is counted
WindowAfterCall(w, now) ==
    IF ~w.open \/ now > w.resetAt
    THEN [open |-> TRUE, calls |-> 1, resetAt |-> now + RATE_WINDOW]
    ELSE [w EXCEPT !.calls = @ + 1]

CheckRateLimit(k) ==
    /\ \/ ~ordinal[k].open
       \/ clock > ordinal[k].resetAt
       \/ ordinal[k].calls < MaxCallsPerWindow
    /\ LET r == checkRateLimit(rateLimitMap, k, clock)
           w == WindowAfterCall(ordinal[k], clock)
       IN  /\ rateLimitMap' = r.map
           /\ ordinal' = [ordinal EXCEPT ![k] = w]
           /\ lastCall' = [made |-> TRUE, identifier |-> k, now |-> clock,
                           allowed |-> r.allowed,
                           before |-> rateLimitMap[k]]
    /\ UNCHANGED << clock, mpesaVars, capture, restVars >>

Tick ==
    /\ clock + TickMs <= MaxTicks * TickMs
    /\ clock' = clock + TickMs
    /\ UNCHANGED << rateLimitMap, lastCall, ordinal, mpesaVars, capture, restVars >>

InitRate ==
    /\ transactions = << >>
    /\ subscriptions = << >>
    /\ MpesaQuiet
    /\ CaptureQuiet
    /\ RateQuiet
    /\ RestQuiet

NextRate ==
    \/ \E k \in Identifiers : CheckRateLimit(k)
    \/ Tick

SpecRate == InitRate /\ [][NextRate]_vars

\* C10: from a key with no entry or an expired one, the first 50 calls are allowed,
\* the 51st and every later call not after resetAt is denied (a call at now = resetAt
\* is still in the old window), and the first call with now > resetAt is allowed and
\* restarts the window with count 1 and resetAt = now + 60000
C10_WindowBehaviour ==
    lastCall.made
    => LET k == lastCall.identifier
           opened == ordinal[k].calls = 1
       IN  /\ lastCall.allowed = (ordinal[k].calls <= 50)
           /\ opened
              => /\ lastCall.allowed
                 /\ rateLimitMap[k] = [present |-> TRUE, count |-> 1,
                                       resetAt |-> lastCall.now + 60000]
           /\ (lastCall.before.present /\ lastCall.now <= lastCall.before.resetAt)
              => /\ ~opened
                 /\ rateLimitMap[k].resetAt = lastCall.before.resetAt

\* a 51st call, made at exactly resetAt, has been denied
C10_Witness ==
    /\ lastCall.made
    /\ ~lastCall.allowed
    /\ ordinal[lastCall.identifier].calls = 51
    /\ lastCall.now = lastCall.before.resetAt

(***************************************************************************)
(* Chat endpoint: the allowed calls of one key in one interval of          *)
(* RATE_WINDOW ms                                                          *)
(***************************************************************************)
MinuteKey == "ip1"

\* history: from now on the interval [clock, clock + RATE_WINDOW) is the one watched
StartWatch ==
    /\ ~watch.open
    /\ watch' = [open |-> TRUE, start |-> clock, calls |-> 0]
    /\ UNCHANGED << mpesaVars, capture, rateVars, chats, pushes, session, reportVars, daily >>

\* checkRateLimit(MinuteKey) at Date.now() = clock
CheckRateLimitWatched ==
    LET r == checkRateLimit(rateLimitMap, MinuteKey, clock) IN
    /\ rateLimitMap' = r.map
    /\ watch' = IF r.allowed /\ watch.open /\ clock < watch.start + RATE_WINDOW
                THEN [watch EXCEPT !.calls = @ + 1]
                ELSE watch
    /\ UNCHANGED << mpesaVars, capture, clock, lastCall, ordinal, chats, pushes, session, reportVars, daily >>

InitMinute == InitRate

NextMinute ==
    \/ StartWatch
    \/ CheckRateLimitWatched
    \/ Tick

SpecMinute == InitMinute /\ [][NextMinute]_vars

\* C11: in any interval of 60000 ms, whatever its start, checkRateLimit returns true
\* for at most 50 calls with one key
C11_AtMost50PerMinute ==
    watch.calls <= RATE_LIMIT

(***************************************************************************)
(* Chat endpoint: the handler and the page that calls it                   *)
(***************************************************************************)
MaxHistory == 13        \* messages on the chat page before one is typed

Max(a, b) == IF a >= b THEN a ELSE b
Min(a, b) == IF a <= b THEN a ELSE b

sliceFromStart(a, start) ==
    SubSeq(a, 1, Min(Len(a), 0 - start))

\* a.slice(start)
slice(a, start) ==
    LET from == IF start < 0 THEN Max(Len(a) + start, 0) ELSE Min(start, Len(a))
    IN  SubSeq(a, from + 1, Len(a))

Message(i) ==
    JObj([role |-> JStr(IF i % 2 = 0 THEN "user" ELSE "assistant"),
          content |-> JStr(ToString(i))])

\* the page's messages state: the greeting and what followed
History(n) == [i \in 1..n |-> Message(i)]

\* sendMessage: [...messages, userMessage].slice(-12)
messageWindow(messages, userMessage) ==
    slice(messages \o << userMessage >>, 0 - 12)

\* the system message: the prompt text with grade and subject filled in
SystemMessage(grade, subject) ==
    JObj([role |-> JStr("system"),
          content |-> JObj(
            [age     |-> IF Truthy(grade) THEN grade ELSE JStr("Grade 1-9"),
             grade   |-> IF Truthy(grade) THEN grade ELSE JStr("Grade 1"),
             subject |-> IF Truthy(subject) THEN subject ELSE JStr("General Learning")])])

Unknown == << "unknown" >>
ChatKeys == { << "ip1" >>, Unknown }

ChatHeaders == { NoHeader, Header(<< >>), Header(<< "ip1" >>) }

\* requests the page sends: the window and the message just typed
PageRequests ==
    { [body  |-> [json |-> TRUE, value |-> JObj(
                    [messages |-> JArr(messageWindow(History(n), Message(n + 1))),
                     grade    |-> JStr("Grade 4"),
                     subject  |-> JStr("Mathematics")])],
       typed |-> Message(n + 1)] : n \in {1, 11, 12, MaxHistory} }

\* requests of any other client
DirectRequests ==
    { [body |-> b, typed |-> Undefined] : b \in
        { [json |-> TRUE, value |-> JObj([messages |-> JArr(History(n))])] :
              n \in {0, MaxHistory + 1} }
        \cup { [json |-> TRUE, value |-> JObj([messages |-> JStr("hello")])],
               [json |-> TRUE, value |-> JObj([grade |-> JStr("Grade 4")])],
               [json |-> TRUE, value |-> JNull],
               NoBody } }

ChatRequests == PageRequests \cup DirectRequests

\* the OPTIONS answer, or clientIp and the rate-limit check
BeginChat(q) ==
    /\ chats[q].pc = "idle"
    /\ IF q = 1 THEN TRUE ELSE chats[q - 1].pc # "idle"
    /\ \E method \in {"OPTIONS", "POST"}, xff \in ChatHeaders, req \in ChatRequests :
        LET clientIp == OrElse(xff, Header(Unknown)).text
            r == checkRateLimit(rateLimitMap, clientIp, clock)
            c == [chats[q] EXCEPT !.method = method, !.body = req.body,
                                  !.typed = req.typed]
        IN  IF method = "OPTIONS"
            THEN /\ chats' = [chats EXCEPT ![q] = [c EXCEPT !.pc = "done", !.status = 200]]
                 /\ UNCHANGED rateLimitMap
            ELSE /\ rateLimitMap' = r.map
                 /\ chats' = [chats EXCEPT ![q] =
                       [c EXCEPT !.clientIp = clientIp, !.at = clock,
                                 !.checked = TRUE, !.allowed = r.allowed,
                                 !.before = rateLimitMap[clientIp],
                                 !.after = r.map[clientIp],
                                 !.pc = IF r.allowed THEN "parse" ELSE "done",
                                 !.status = IF r.allowed THEN 0 ELSE 429]]
    /\ UNCHANGED << mpesaVars, capture, clock, lastCall, ordinal, watch, pushes, session, reportVars, daily >>

\* await req.json(), the messages check, the API key, the request to the gateway
ParseChat(q) ==
    /\ chats[q].pc = "parse"
    /\ \E LOVABLE_API_KEY \in BOOLEAN :
        LET c == [chats[q] EXCEPT !.parsed = TRUE]
            value == c.body.value
            messages == Get(value, "messages")
        IN  chats' = [chats EXCEPT ![q] =
              IF ~c.body.json \/ value.t = "null"
              THEN [c EXCEPT !.pc = "done", !.status = 500]
              ELSE IF messages.t # "array"
              THEN [c EXCEPT !.pc = "done", !.status = 400]
              ELSE IF ~LOVABLE_API_KEY
              THEN [c EXCEPT !.pc = "done", !.status = 500]
              ELSE [c EXCEPT !.pc = "gateway", !.gatewayCalls = @ + 1,
                             !.forwarded =
                                << SystemMessage(Get(value, "grade"), Get(value, "subject")) >>
                                \o slice(messages.a, 0 - 12)]]
    /\ UNCHANGED << mpesaVars, capture, rateVars, watch, pushes, session, reportVars, daily >>

\* the gateway's answer, passed on
AnswerChat(q) ==
    /\ chats[q].pc = "gateway"
    /\ \E gateway \in {"ok", "429", "402", "other", "unreachable"} :
        chats' = [chats EXCEPT ![q] =
            [@ EXCEPT !.pc = "done",
                      !.status = CASE gateway = "ok" -> 200
                                   [] gateway = "429" -> 429
                                   [] gateway = "402" -> 402
                                   [] OTHER -> 500]]
    /\ UNCHANGED << mpesaVars, capture, rateVars, watch, pushes, session, reportVars, daily >>

\* the map after earlier requests of this minute: nothing, or count requests at time 0
EarlierRequests(count) ==
    IF count = 0 THEN NoEntry
    ELSE [present |-> TRUE, count |-> count, resetAt |-> RATE_WINDOW]

InitChat ==
    /\ transactions = << >>
    /\ subscriptions = << >>
    /\ MpesaQuiet
    /\ CaptureQuiet
    /\ \E n \in {0, RATE_LIMIT - 1, RATE_LIMIT} :
          rateLimitMap = [k \in ChatKeys |->
                            IF k = Unknown THEN EarlierRequests(n) ELSE NoEntry]
    /\ clock = 0
    /\ lastCall = NoCall
    /\ ordinal = [k \in Identifiers |-> NoWindow]
    /\ RestQuiet

NextChat ==
    \/ \E q \in Chats : BeginChat(q) \/ ParseChat(q) \/ AnswerChat(q)
    \/ Tick

SpecChat == InitChat /\ [][NextChat]_vars

\* the count a call at time now leaves behind when it is counted
CountedAs(before, now) ==
    IF before.present /\ now <= before.resetAt THEN before.count + 1 ELSE 1

\* C12: a request denied by checkRateLimit is answered 429, its body never parsed and
\* the gateway never called; the body is parsed and the gateway called only in a
\* request whose checkRateLimit call returned true and counted it
C12_RateLimitFirst ==
    \A q \in Chats :
        LET c == chats[q] IN
        /\ (c.checked /\ ~c.allowed)
              => c.pc = "done" /\ c.status = 429 /\ ~c.parsed /\ c.gatewayCalls = 0
        /\ (c.parsed \/ c.gatewayCalls > 0)
              => /\ c.method # "OPTIONS"
                 /\ c.checked /\ c.allowed
                 /\ c.after.present
                 /\ c.after.count = CountedAs(c.before, c.at)
                 /\ c.after.count <= RATE_LIMIT

\* a POST request was denied as the 51st of its window and answered 429
C12_Witness ==
    \E q \in Chats :
        /\ chats[q].method = "POST"
        /\ chats[q].checked /\ ~chats[q].allowed
        /\ chats[q].before.count = RATE_LIMIT
        /\ chats[q].status = 429

\* C13: the gateway gets the system prompt followed by the last min(n, 12) messages of
\* the request in their order, and the window the page sends ends with the message
\* just typed
C13_LastTwelve ==
    \A q \in Chats :
        LET c == chats[q] IN
        /\ c.gatewayCalls > 0
              => LET msgs == Get(c.body.value, "messages").a
                     n == Len(msgs)
                     k == IF n < 12 THEN n ELSE 12
                 IN  /\ Len(c.forwarded) = k + 1
                     /\ Get(c.forwarded[1], "role") = JStr("system")
                     /\ \A i \in 1..k : c.forwarded[1 + i] = msgs[n - k + i]
        /\ (c.pc # "idle" /\ c.typed # Undefined)
              => LET msgs == Get(c.body.value, "messages").a
                 IN  /\ Len(msgs) <= 12
                     /\ msgs # << >>
                     /\ msgs[Len(msgs)] = c.typed

\* more than 12 messages came in and the gateway was called
C13_Witness ==
    \E q \in Chats :
        /\ chats[q].gatewayCalls = 1
        /\ Len(Get(chats[q].body.value, "messages").a) > 12

(***************************************************************************)
(* Payment initiation: mpesa-stk-push and paypal-create-order.  A phone    *)
(* number is a sequence of characters.                                     *)
(***************************************************************************)
PRICING_PLANS ==
    [monthly |-> [price |-> 249], quarterly |-> [price |-> 599], yearly |-> [price |-> 1799]]

Digits == {"0", "1", "2", "3", "4", "5", "6", "7", "8", "9"}

\* phone.replace(/\s+/g, "")
removeSpaces(phone) == SelectSeq(phone, LAMBDA ch : ch # " ")

\* /^(\+?254|0)[17]\d{8}$/.test(cleaned)
isValidPhoneNumber(phone) ==
    LET cleaned == removeSpaces(phone)
        rest == IF StartsWith(cleaned, << "+", "2", "5", "4" >>)
                THEN SubSeq(cleaned, 5, Len(cleaned))
                ELSE IF StartsWith(cleaned, << "2", "5", "4" >>)
                THEN SubSeq(cleaned, 4, Len(cleaned))
                ELSE IF StartsWith(cleaned, << "0" >>)
                THEN SubSeq(cleaned, 2, Len(cleaned))
                ELSE << >>
    IN  /\ Len(rest) = 9
        /\ rest[1] \in {"1", "7"}
        /\ \A i \in 2..9 : rest[i] \in Digits

\* validAmounts[planType] === amount (mpesa-stk-push)
isValidAmount(amount, planType) ==
    IF planType \in DOMAIN ListedAmount THEN ListedAmount[planType] = amount ELSE FALSE

\* validAmounts[planType] === amount (paypal-create-order)
isValidPaypalAmount(amount, planType) ==
    IF planType \in DOMAIN PaypalAmounts THEN PaypalAmounts[planType] = amount ELSE FALSE

\* formattedPhone
FormatPhone(phone) ==
    LET cleaned == removeSpaces(phone) IN
    IF StartsWith(cleaned, << "+" >>) THEN Tail(cleaned)
    ELSE IF StartsWith(cleaned, << "0" >>) THEN << "2", "5", "4" >> \o Tail(cleaned)
    ELSE cleaned

Refuse(status, error) == [ok |-> FALSE, status |-> status, error |-> error]
Admit == [ok |-> TRUE, status |-> 0, error |-> NULL]

StkAdmissionAnyAmount(token, body, credentials) ==
    IF token = "none" THEN Refuse(401, "Authentication required")
    ELSE IF token = "invalid" THEN Refuse(401, "Invalid or expired authentication token")
    ELSE IF ~body.json THEN Refuse(500, "Unexpected token")
    ELSE IF body.value.t = "null" THEN Refuse(500, "Cannot destructure")
    ELSE
    LET phone_number == Get(body.value, "phone_number")
        plan_type == Get(body.value, "plan_type")
    IN  IF phone_number.t # "string" THEN Refuse(400, "Valid phone number is required")
        ELSE IF phone_number.s = << >> THEN Refuse(400, "Valid phone number is required")
        ELSE IF ~isValidPhoneNumber(phone_number.s)
        THEN Refuse(400, "Invalid phone number format")
        ELSE IF ~Truthy(plan_type) THEN Refuse(400, "Invalid plan type")
        ELSE IF plan_type.t # "string" THEN Refuse(400, "Invalid plan type")
        ELSE IF ~isValidPlanType(plan_type.s) THEN Refuse(400, "Invalid plan type")
        ELSE IF ~credentials THEN Refuse(500, "M-Pesa configuration incomplete")
        ELSE Admit

\* mpesa-stk-push up to the credentials check: the refusal, or none
StkAdmission(token, body, credentials) ==
    IF token = "none" THEN Refuse(401, "Authentication required")
    ELSE IF token = "invalid" THEN Refuse(401, "Invalid or expired authentication token")
    ELSE IF ~body.json THEN Refuse(500, "Unexpected token")
    ELSE IF body.value.t = "null" THEN Refuse(500, "Cannot destructure")
    ELSE
    LET phone_number == Get(body.value, "phone_number")
        amount == Get(body.value, "amount")
        plan_type == Get(body.value, "plan_type")
    IN  IF phone_number.t # "string" THEN Refuse(400, "Valid phone number is required")
        ELSE IF phone_number.s = << >> THEN Refuse(400, "Valid phone number is required")
        ELSE IF ~isValidPhoneNumber(phone_number.s)
        THEN Refuse(400, "Invalid phone number format")
        ELSE IF ~Truthy(plan_type) THEN Refuse(400, "Invalid plan type")
        ELSE IF plan_type.t # "string" THEN Refuse(400, "Invalid plan type")
        ELSE IF ~isValidPlanType(plan_type.s) THEN Refuse(400, "Invalid plan type")
        ELSE IF ~Truthy(amount) THEN Refuse(400, "Invalid amount for the selected plan")
        ELSE IF TypeOf(amount) # "number"
        THEN Refuse(400, "Invalid amount for the selected plan")
        ELSE IF ~isValidAmount(amount.n, plan_type.s)
        THEN Refuse(400, "Invalid amount for the selected plan")
        ELSE IF ~credentials THEN Refuse(500, "M-Pesa configuration incomplete")
        ELSE Admit

\* paypal-create-order up to the first vendor call: the refusal, or none
OrderAdmission(token, body) ==
    IF token = "none" THEN Refuse(401, "Authentication required")
    ELSE IF token = "invalid" THEN Refuse(401, "Invalid or expired authentication token")
    ELSE IF ~body.json THEN Refuse(500, "Unexpected token")
    ELSE IF body.value.t = "null" THEN Refuse(500, "Cannot destructure")
    ELSE
    LET plan_type == Get(body.value, "plan_type")
        amount_kes == Get(body.value, "amount_kes")
    IN  IF ~Truthy(plan_type) THEN Refuse(400, "Invalid plan type")
        ELSE IF plan_type.t # "string" THEN Refuse(400, "Invalid plan type")
        ELSE IF ~isValidPlanType(plan_type.s) THEN Refuse(400, "Invalid plan type")
        ELSE IF ~Truthy(amount_kes) THEN Refuse(400, "Invalid amount for the selected plan")
        ELSE IF TypeOf(amount_kes) # "number"
        THEN Refuse(400, "Invalid amount for the selected plan")
        ELSE IF ~isValidPaypalAmount(amount_kes.n, plan_type.s)
        THEN Refuse(400, "Invalid amount for the selected plan")
        ELSE Admit

StkSubscriptionRowFromBody(authenticatedUserId, body) ==
    [user_id |-> IF Truthy(Get(body, "user_id")) THEN Get(body, "user_id").s
                 ELSE authenticatedUserId,
     plan_type |-> Get(body, "plan_type").s, status |-> "pending",
     amount_kes |-> Get(body, "amount").n, payment_method |-> "mpesa",
     transaction_id |-> NULL, mpesa_receipt_number |-> NULL,
     starts_at |-> NoDate, expires_at |-> NoDate]

\* the subscriptions row mpesa-stk-push inserts
StkSubscriptionRow(authenticatedUserId, body) ==
    [user_id |-> authenticatedUserId,
     plan_type |-> Get(body, "plan_type").s, status |-> "pending",
     amount_kes |-> Get(body, "amount").n, payment_method |-> "mpesa",
     transaction_id |-> NULL, mpesa_receipt_number |-> NULL,
     starts_at |-> NoDate, expires_at |-> NoDate]

\* the payment_transactions row mpesa-stk-push inserts (subscription?.id is undefined
\* when the subscription insert failed)
StkTransactionRow(authenticatedUserId, body, subscription_id, CheckoutRequestID) ==
    [subscription_id |-> IF subscription_id = 0 THEN NULL ELSE subscription_id,
     user_id |-> authenticatedUserId, amount_kes |-> Get(body, "amount").n,
     payment_method |-> "mpesa", checkout_request_id |-> CheckoutRequestID,
     phone_number |-> FormatPhone(Get(body, "phone_number").s),
     status |-> "pending", mpesa_receipt_number |-> NULL,
     result_code |-> NULL, result_desc |-> NULL]

\* the payment_transactions row paypal-create-order inserts
OrderTransactionRow(authenticatedUserId, body, order_id) ==
    InitiatedTransaction(authenticatedUserId, order_id, Get(body, "amount_kes").n)

LocalPhone  == << "0", "7", "1", "2", "3", "4", "5", "6", "7", "8" >>
SpacedPhone == << "+", "2", "5", "4", " ", "1", "1", "2", " ", "3", "4", "5", " ", "6", "7", "8" >>
OtherPrefixPhone == << "0", "8", "1", "2", "3", "4", "5", "6", "7", "8" >>
ShortPhone  == << "0", "7", "1", "2", "3", "4", "5", "6", "7" >>

PushBody(phone_number, amount, plan_type) ==
    [json |-> TRUE, value |-> JObj([phone_number |-> phone_number, amount |-> amount,
                                    plan_type |-> plan_type])]

OrderBody(amount_kes, plan_type) ==
    [json |-> TRUE, value |-> JObj([amount_kes |-> amount_kes, plan_type |-> plan_type])]

\* the same body with a user_id field
WithUserId(body, user) ==
    [body EXCEPT !.value = JObj([user_id |-> JStr(user)] @@ body.value.f)]

\* the body without a user_id field
WithoutUserId(value) ==
    JObj([k \in DOMAIN value.f \ {"user_id"} |-> value.f[k]])

\* initiateMpesaPayment(phoneNumber, planType): the body the page sends
initiateMpesaPayment(phoneNumber, planType) ==
    PushBody(JStr(phoneNumber), JNum(PRICING_PLANS[planType].price), JStr(planType))

\* initiatePayPalPayment(planType): the body the page sends
initiatePayPalPayment(planType) ==
    OrderBody(JNum(PRICING_PLANS[planType].price), JStr(planType))

StkRequests ==
    { [body |-> initiateMpesaPayment(LocalPhone, plan), fromPage |-> TRUE] :
          plan \in PlanTypes }
    \cup { [body |-> b, fromPage |-> FALSE] : b \in
        { PushBody(JStr(LocalPhone), JNum(ListedAmount[plan]), JStr(plan)) :
              plan \in PlanTypes }
        \cup { WithUserId(PushBody(JStr(LocalPhone), JNum(499), JStr("monthly")), "u2"),
               PushBody(JStr(SpacedPhone), JNum(499), JStr("monthly")),
               PushBody(JStr(OtherPrefixPhone), JNum(499), JStr("monthly")),
               PushBody(JStr(ShortPhone), JNum(499), JStr("monthly")),
               PushBody(JStr(<< >>), JNum(499), JStr("monthly")),
               PushBody(JNum(712345678), JNum(499), JStr("monthly")),
               PushBody(Undefined, JNum(1), JStr("weekly")),
               PushBody(JStr(LocalPhone), JNum(499), JStr("weekly")),
               PushBody(JStr(LocalPhone), JNum(1), Undefined),
               PushBody(JStr(LocalPhone), JNum(1299), JStr("monthly")),
               PushBody(JStr(LocalPhone), JNum(500), JStr("monthly")),
               PushBody(JStr(LocalPhone), JStr("499"), JStr("monthly")),
               PushBody(JStr(LocalPhone), Undefined, JStr("monthly")),
               [json |-> TRUE, value |-> JNull],
               NoBody } }

OrderRequests ==
    { [body |-> initiatePayPalPayment(plan), fromPage |-> TRUE] : plan \in PlanTypes }
    \cup { [body |-> b, fromPage |-> FALSE] : b \in
        { WithUserId(OrderBody(JNum(249), JStr("monthly")), "u2"),
          OrderBody(JNum(249), JStr("weekly")),
          OrderBody(JNum(499), JStr("monthly")),
          OrderBody(JStr("249"), JStr("monthly")),
          NoBody } }

Reply(p, status, success, error) ==
    [p EXCEPT !.pc = "done", !.status = status, !.success = success, !.error = error]

PushFrame ==
    UNCHANGED << env, handlers, txWriters, subWriters, capture, rateVars, chatVars, session,
                 reportVars, daily >>

\* mpesa-stk-push: authentication, the body, its validation, the credentials
BeginPush(p) ==
    /\ pushes[p].pc = "idle"
    /\ IF p = 1 THEN TRUE ELSE pushes[p - 1].pc # "idle"
    /\ \E token \in Tokens, req \in StkRequests, credentials \in BOOLEAN :
        LET a == StkAdmission(token, req.body, credentials)
            r == [pushes[p] EXCEPT !.kind = "mpesa", !.token = token,
                                   !.user = IF token \in Users THEN token ELSE NULL,
                                   !.body = req.body, !.fromPage = req.fromPage,
                                   !.credentials = credentials]
        IN  pushes' = [pushes EXCEPT ![p] =
              IF a.ok THEN [r EXCEPT !.pc = "token"]
              ELSE Reply(r, a.status, FALSE, a.error)]
    /\ UNCHANGED << transactions, subscriptions >>
    /\ PushFrame

\* the OAuth token request to Safaricom
TokenPush(p) ==
    /\ pushes[p].pc = "token"
    /\ \E tokenResponse \in {"ok", "refused", "unreachable"} :
        LET r == [pushes[p] EXCEPT !.vendorCalls = @ + 1] IN
        pushes' = [pushes EXCEPT ![p] =
            CASE tokenResponse = "ok" -> [r EXCEPT !.pc = "stk"]
              [] tokenResponse = "refused" ->
                    Reply(r, 500, FALSE, "Failed to authenticate with M-Pesa")
              [] OTHER -> Reply(r, 500, FALSE, "error sending request")]
    /\ UNCHANGED << transactions, subscriptions >>
    /\ PushFrame

\* the STK push request and stkData
StkPush(p) ==
    /\ pushes[p].pc = "stk"
    /\ \E stkData \in {"0", "1", "not-json"} :
        LET r == [pushes[p] EXCEPT !.vendorCalls = @ + 1] IN
        pushes' = [pushes EXCEPT ![p] =
            CASE stkData = "0" ->
                    [r EXCEPT !.pc = "insertSub", !.checkout = "ws_CO_" \o ToString(p)]
              [] stkData = "1" -> Reply(r, 400, FALSE, "Failed to initiate payment")
              [] OTHER -> Reply(r, 500, FALSE, "Unexpected token")]
    /\ UNCHANGED << transactions, subscriptions >>
    /\ PushFrame

\* insert into subscriptions ... .select().single(); subError is only logged
InsertPushSubscription(p) ==
    /\ pushes[p].pc = "insertSub"
    /\ \E subError \in BOOLEAN :
        IF subError
        THEN /\ pushes' = [pushes EXCEPT ![p].pc = "insertTx"]
             /\ UNCHANGED subscriptions
        ELSE /\ subscriptions' = Append(subscriptions,
                  StkSubscriptionRow(pushes[p].user, pushes[p].body.value))
             /\ pushes' = [pushes EXCEPT ![p] =
                  [@ EXCEPT !.pc = "insertTx", !.subscription_id = Len(subscriptions) + 1]]
    /\ UNCHANGED transactions
    /\ PushFrame

\* insert into payment_transactions; txError is only logged; the success answer
InsertPushTransaction(p) ==
    /\ pushes[p].pc = "insertTx"
    /\ \E txError \in BOOLEAN :
        IF txError
        THEN /\ pushes' = [pushes EXCEPT ![p] = Reply(@, 200, TRUE, NULL)]
             /\ UNCHANGED transactions
        ELSE /\ transactions' = Append(transactions,
                  StkTransactionRow(pushes[p].user, pushes[p].body.value,
                                    pushes[p].subscription_id, pushes[p].checkout))
             /\ pushes' = [pushes EXCEPT ![p] =
                  Reply([@ EXCEPT !.transaction_id = Len(transactions) + 1], 200, TRUE, NULL)]
    /\ UNCHANGED subscriptions
    /\ PushFrame

\* paypal-create-order: authentication, the body, its validation
BeginOrder(p) ==
    /\ pushes[p].pc = "idle"
    /\ IF p = 1 THEN TRUE ELSE pushes[p - 1].pc # "idle"
    /\ \E token \in Tokens, req \in OrderRequests :
        LET a == OrderAdmission(token, req.body)
            r == [pushes[p] EXCEPT !.kind = "paypal", !.token = token,
                                   !.user = IF token \in Users THEN token ELSE NULL,
                                   !.body = req.body, !.fromPage = req.fromPage]
        IN  pushes' = [pushes EXCEPT ![p] =
              IF a.ok THEN [r EXCEPT !.pc = "order"]
              ELSE Reply(r, a.status, FALSE, a.error)]
    /\ UNCHANGED << transactions, subscriptions >>
    /\ PushFrame

\* getPayPalAccessToken() and the order request
CreateOrder(p) ==
    /\ pushes[p].pc = "order"
    /\ \E paypal \in {"no-token", "refused", "created"} :
        pushes' = [pushes EXCEPT ![p] =
            CASE paypal = "no-token" ->
                    Reply([@ EXCEPT !.vendorCalls = @ + 1], 500, FALSE,
                          "Failed to authenticate with PayPal")
              [] paypal = "refused" ->
                    Reply([@ EXCEPT !.vendorCalls = @ + 2], 500, FALSE,
                          "Failed to create PayPal order")
              [] OTHER -> [@ EXCEPT !.vendorCalls = @ + 2, !.pc = "insertOrder",
                                    !.checkout = "ORDER" \o ToString(p)]]
    /\ UNCHANGED << transactions, subscriptions >>
    /\ PushFrame

\* insert into payment_transactions; dbError is only logged; the success answer
InsertOrderTransaction(p) ==
    /\ pushes[p].pc = "insertOrder"
    /\ \E dbError \in BOOLEAN :
        IF dbError
        THEN /\ pushes' = [pushes EXCEPT ![p] = Reply(@, 200, TRUE, NULL)]
             /\ UNCHANGED transactions
        ELSE /\ transactions' = Append(transactions,
                  OrderTransactionRow(pushes[p].user, pushes[p].body.value,
                                      pushes[p].checkout))
             /\ pushes' = [pushes EXCEPT ![p] =
                  Reply([@ EXCEPT !.transaction_id = Len(transactions) + 1], 200, TRUE, NULL)]
    /\ UNCHANGED subscriptions
    /\ PushFrame

InitInitiate ==
    /\ transactions = << >>
    /\ subscriptions = << >>
    /\ MpesaQuiet
    /\ CaptureQuiet
    /\ RateQuiet
    /\ RestQuiet

NextInitiate ==
    \E p \in Pushes :
        \/ BeginPush(p)
        \/ TokenPush(p)
        \/ StkPush(p)
        \/ InsertPushSubscription(p)
        \/ InsertPushTransaction(p)
        \/ BeginOrder(p)
        \/ CreateOrder(p)
        \/ InsertOrderTransaction(p)

SpecInitiate == InitInitiate /\ [][NextInitiate]_vars

(***************************************************************************)
(* Payment initiation: properties                                          *)
(***************************************************************************)
\* the first check, in the order authentication, phone number, plan type, amount,
\* credentials, that a request does not pass ("body": no JSON object to validate)
FailedCheck(r) ==
    IF r.token \notin Users THEN "authentication"
    ELSE IF ~r.body.json THEN "body"
    ELSE IF r.body.value.t # "object" THEN "body"
    ELSE
    LET phone_number == Get(r.body.value, "phone_number")
        amount == Get(r.body.value, "amount")
        plan_type == Get(r.body.value, "plan_type")
    IN  IF ~(phone_number.t = "string" /\ isValidPhoneNumber(phone_number.s))
        THEN "phone number"
        ELSE IF ~(plan_type.t = "string" /\ plan_type.s \in PlanTypes)
        THEN "plan type"
        ELSE IF ~(amount.t = "number" /\ amount.n = ListedAmount[plan_type.s])
        THEN "amount"
        ELSE IF ~r.credentials THEN "credentials"
        ELSE "none"

StatusOf(check) ==
    CASE check = "authentication" -> 401
      [] check \in {"phone number", "plan type", "amount"} -> 400
      [] OTHER -> 500

\* the check an error text speaks of
CheckOf(error) ==
    CASE error \in {"Authentication required", "Invalid or expired authentication token"}
            -> "authentication"
      [] error \in {"Valid phone number is required", "Invalid phone number format"}
            -> "phone number"
      [] error = "Invalid plan type" -> "plan type"
      [] error = "Invalid amount for the selected plan" -> "amount"
      [] error = "M-Pesa configuration incomplete" -> "credentials"
      [] OTHER -> "body"

InsertedRows(r) == (IF r.subscription_id # 0 THEN 1 ELSE 0) + (IF r.transaction_id # 0 THEN 1 ELSE 0)

RECURSIVE RowsOf(_)
RowsOf(ps) ==
    IF ps = {} THEN [subscriptions |-> 0, transactions |-> 0]
    ELSE LET p == CHOOSE x \in ps : TRUE
             rest == RowsOf(ps \ {p})
         IN  [subscriptions |-> rest.subscriptions
                                  + (IF pushes[p].subscription_id # 0 THEN 1 ELSE 0),
              transactions |-> rest.transactions
                                  + (IF pushes[p].transaction_id # 0 THEN 1 ELSE 0)]

\* C14: mpesa-stk-push calls the vendor and inserts rows only for a request that passed
\* authentication, phone, plan, amount and credentials checks; a request failing one is
\* answered by the first check it fails, in that order, with 401, 400 or 500, no vendor
\* request and no row
C14_ValidatedBeforeVendor ==
    /\ Len(subscriptions) = RowsOf(Pushes).subscriptions
    /\ Len(transactions) = RowsOf(Pushes).transactions
    /\ \A p \in Pushes :
        LET r == pushes[p] IN
        (r.kind = "mpesa")
        => /\ FailedCheck(r) # "none"
                => /\ r.pc = "done"
                   /\ r.status = StatusOf(FailedCheck(r))
                   /\ CheckOf(r.error) = FailedCheck(r)
                   /\ ~r.success
                   /\ r.vendorCalls = 0
                   /\ InsertedRows(r) = 0
           /\ (r.vendorCalls > 0 \/ InsertedRows(r) > 0) => FailedCheck(r) = "none"
           /\ InsertedRows(r) > 0 => r.vendorCalls = 2

\* a request with a valid token, phone and plan and an amount one shilling off was
\* answered 400
C14_Witness ==
    \E p \in Pushes :
        /\ pushes[p].kind = "mpesa"
        /\ FailedCheck(pushes[p]) = "amount"
        /\ Get(pushes[p].body.value, "amount") = JNum(500)
        /\ pushes[p].credentials
        /\ pushes[p].status = 400

\* C15: the amount the page sends to mpesa-stk-push for a plan, the listed price,
\* passes the server's isValidAmount for that plan and is not answered 400
C15_ListedPriceAccepted ==
    \A p \in Pushes :
        (pushes[p].kind = "mpesa" /\ pushes[p].fromPage)
        => /\ isValidAmount(Get(pushes[p].body.value, "amount").n,
                            Get(pushes[p].body.value, "plan_type").s)
           /\ pushes[p].status # 400

\* C16: the rows a payment initiation inserts belong to the user of the bearer token
\* and are the rows the same request without a user_id field would have inserted
C16_OwnerIsTokenUser ==
    \A p \in Pushes :
        LET r == pushes[p]
            body == WithoutUserId(r.body.value)
        IN  /\ r.subscription_id # 0
                => /\ r.token \in Users
                   /\ subscriptions[r.subscription_id].user_id = r.token
                   /\ subscriptions[r.subscription_id] = StkSubscriptionRow(r.token, body)
            /\ r.transaction_id # 0
                => /\ r.token \in Users
                   /\ transactions[r.transaction_id].user_id = r.token
                   /\ transactions[r.transaction_id] =
                        IF r.kind = "mpesa"
                        THEN StkTransactionRow(r.token, body, r.subscription_id, r.checkout)
                        ELSE OrderTransactionRow(r.token, body, r.checkout)

\* a request with u1's token and user_id u2 in its body inserted both rows
C16_Witness ==
    \E p \in Pushes :
        /\ pushes[p].kind = "mpesa"
        /\ pushes[p].token = "u1"
        /\ Get(pushes[p].body.value, "user_id") = JStr("u2")
        /\ pushes[p].subscription_id # 0
        /\ pushes[p].transaction_id # 0

\* C17: when mpesa-stk-push answers success with a checkout_request_id, there is one
\* new pending subscription of the user and one pending transaction with that
\* checkout_request_id that references it
C17_SuccessMeansRows ==
    \A p \in Pushes :
        LET r == pushes[p] IN
        (r.kind = "mpesa" /\ r.success)
        => /\ r.subscription_id \in DOMAIN subscriptions
           /\ subscriptions[r.subscription_id].status = "pending"
           /\ subscriptions[r.subscription_id].user_id = r.user
           /\ Cardinality({ t \in DOMAIN transactions :
                  /\ transactions[t].checkout_request_id = r.checkout
                  /\ transactions[t].status = "pending"
                  /\ transactions[t].subscription_id = r.subscription_id }) = 1

(***************************************************************************)
(* The page's useSubscription hook                                         *)
(***************************************************************************)
\* new Date(text) for an ISO-8601 text
parseDate(text) == At(text.y, text.m, text.d, text.h)

ActiveSubscription(user, expires) ==
    [user_id |-> user, status |-> "active", expires_at |-> toISOString(expires)]

\* rows of the subscriptions table, as the handlers leave them: pending without
\* dates, active with an expiry
StoredSubscriptions ==
    { ActiveSubscription("u1", At(2024, 0, 15, 9)),
      ActiveSubscription("u1", At(2024, 0, 20, 9)),
      ActiveSubscription("u1", At(2024, 1, 15, 9)),
      ActiveSubscription("u2", At(2024, 1, 15, 9)),
      [user_id |-> "u1", status |-> "pending", expires_at |-> NoDate] }

\* .eq("user_id", user.id).eq("status", "active").order("expires_at", { ascending:
\* false }).limit(1).maybeSingle(): the rows it may return
LatestActive(user) ==
    LET rows == { subscriptions[i] : i \in { j \in DOMAIN subscriptions :
                      /\ subscriptions[j].user_id = user
                      /\ subscriptions[j].status = "active" } }
    IN  { r \in rows : \A o \in rows :
              parseDate(r.expires_at) >= parseDate(o.expires_at) }

SessionFrame ==
    UNCHANGED << mpesaVars, capture, rateVars, chatVars, pushes, reportVars, daily >>

FreeFetch(f) ==
    /\ session.fetches[f].pc = "idle"
    /\ \A g \in Fetches : g < f => session.fetches[g].pc # "idle"

\* useAuth() gives another user; the effect on [user] runs
SetUser(u) ==
    /\ u # session.user
    /\ (u = NULL) # (session.user = NULL)
    /\ IF u = NULL
       THEN session' = [session EXCEPT !.user = NULL, !.subscription = NoSubscription,
                                       !.isPremium = FALSE, !.loading = FALSE,
                                       !.completed = NoCompletion]
       ELSE \E f \in Fetches :
              /\ FreeFetch(f)
              /\ session' = [session EXCEPT !.user = u,
                                            !.fetches[f] = [pc |-> "query", user |-> u]]
    /\ SessionFrame

\* refetch(), or fetchSubscription() after a capture
Refetch ==
    /\ session.user # NULL
    /\ \E f \in Fetches :
          /\ FreeFetch(f)
          /\ session' = [session EXCEPT !.fetches[f] = [pc |-> "query", user |-> session.user]]
    /\ SessionFrame

\* the query's result arrives and the rest of fetchSubscription runs
CompleteFetch(f) ==
    /\ session.fetches[f].pc = "query"
    /\ \E error \in BOOLEAN, now \in Instants :
        LET rows == LatestActive(session.fetches[f].user)
            done == [session EXCEPT !.fetches[f].pc = "done", !.loading = FALSE]
        IN  IF error
            THEN session' = done
            ELSE IF rows = {}
            THEN session' = [done EXCEPT !.subscription = NoSubscription,
                                         !.isPremium = FALSE,
                                         !.completed = [user |-> session.fetches[f].user,
                                                        now |-> now]]
            ELSE \E data \in rows :
                   session' = [done EXCEPT
                      !.subscription = data,
                      !.isPremium = IF data.expires_at # NoDate
                                    THEN parseDate(data.expires_at) > now
                                    ELSE FALSE,
                      !.completed = [user |-> session.fetches[f].user, now |-> now]]
    /\ SessionFrame

InitPremium ==
    /\ transactions = << >>
    /\ \E a \in StoredSubscriptions, b \in StoredSubscriptions :
          subscriptions \in { << >>, << a >>, << a, b >> }
    /\ MpesaQuiet
    /\ CaptureQuiet
    /\ RateQuiet
    /\ RestQuiet

NextPremium ==
    \/ \E u \in Users \cup {NULL} : SetUser(u)
    \/ Refetch
    \/ \E f \in Fetches : CompleteFetch(f)

SpecPremium == InitPremium /\ [][NextPremium]_vars

\* the user has an active subscription and the greatest expires_at among the active
\* ones is later than now
PremiumAt(user, now) ==
    /\ \E i \in DOMAIN subscriptions :
          subscriptions[i].user_id = user /\ subscriptions[i].status = "active"
    /\ \E i \in DOMAIN subscriptions :
          /\ subscriptions[i].user_id = user /\ subscriptions[i].status = "active"
          /\ parseDate(subscriptions[i].expires_at) > now

\* C19: once fetchSubscription has completed successfully for the logged-in user,
\* isPremium says whether that user has an active subscription whose expires_at is
\* later than now; with no logged-in user isPremium is false
C19_PremiumFromSubscription ==
    /\ (session.user # NULL /\ session.completed.user = session.user)
          => session.isPremium = PremiumAt(session.user, session.completed.now)
    /\ session.user = NULL => ~session.isPremium

(***************************************************************************)
(* StudyBuddy activity reports (studybuddy-report)                         *)
(***************************************************************************)
updateProficiencyNoCeiling(currentProficiency, score, difficulty) ==
    LET alpha == 3
        performanceSignal == score - difficulty
        newProficiency == currentProficiency + alpha * performanceSignal
    IN  Max(0, newProficiency)

\* proficiency in hundredths; score and difficulty in tenths; alpha = 0.3
updateProficiency(currentProficiency, score, difficulty) ==
    LET alpha == 3
        performanceSignal == score - difficulty
        newProficiency == currentProficiency + alpha * performanceSignal
    IN  Max(0, Min(100, newProficiency))

\* existingSkill?.proficiency ?? 0.5
DefaultProficiency == 50

\* table study_activities (read only here): id, skill_code, difficulty
StudyActivities ==
    { [id |-> "a1", skill_code |-> "fractions", difficulty |-> 3],
      [id |-> "a2", skill_code |-> "fractions", difficulty |-> 8],
      [id |-> "a3", skill_code |-> "algebra", difficulty |-> 600] }

UnknownActivity == "a9"

\* study_activities .eq("id", activity_id).single()
ActivitiesById(activity_id) == { a \in StudyActivities : a.id = activity_id }

\* the number a JSON value stands for in score - difficulty
ToNumber(v) == IF v.t = "number" THEN v.n ELSE 0

ReportBody(activity_id, score, time_spent_sec) ==
    [json |-> TRUE, value |-> JObj([activity_id |-> activity_id, score |-> score,
                                    time_spent_sec |-> time_spent_sec])]

\* requests: the Authorization header's token and the body
ReportRequests ==
    { [token |-> "u1", body |-> ReportBody(JStr("a1"), JNum(10), JNum(30))],
      [token |-> "u1", body |-> ReportBody(JStr("a1"), JNum(0), JNum(30))],
      [token |-> "u1", body |-> ReportBody(JStr("a1"), JNum(500), JNum(30))],
      [token |-> "u1", body |-> ReportBody(JStr("a2"), JNum(-500), JNum(30))],
      [token |-> "u1", body |-> ReportBody(JStr("a3"), JNull, JNum(30))],
      [token |-> "u2", body |-> ReportBody(JStr("a1"), JNum(10), JNum(30))],
      [token |-> "none", body |-> ReportBody(JStr("a1"), JNum(10), JNum(30))],
      [token |-> "invalid", body |-> ReportBody(JStr("a1"), JNum(10), JNum(30))],
      [token |-> "u1", body |-> ReportBody(Undefined, JNum(10), JNum(30))],
      [token |-> "u1", body |-> ReportBody(JStr("a1"), Undefined, JNum(30))],
      [token |-> "u1", body |-> ReportBody(JStr("a1"), JNum(10), JNum(0))],
      [token |-> "u1", body |-> ReportBody(JStr("a1"), JNum(10), Undefined)],
      [token |-> "u1", body |-> ReportBody(JStr(UnknownActivity), JNum(10), JNum(30))],
      [token |-> "u1", body |-> [json |-> TRUE, value |-> JNull]],
      [token |-> "u1", body |-> NoBody] }

ReportAdmissionFalsyScore(token, body) ==
    IF token \notin Users THEN Refuse(401, "Unauthorized")
    ELSE IF ~body.json THEN Refuse(500, "Unexpected token")
    ELSE IF body.value.t = "null" THEN Refuse(500, "Cannot destructure")
    ELSE
    LET activity_id == Get(body.value, "activity_id")
        score == Get(body.value, "score")
        time_spent_sec == Get(body.value, "time_spent_sec")
    IN  IF ~Truthy(activity_id) \/ ~Truthy(score) \/ ~Truthy(time_spent_sec)
        THEN Refuse(400, "Missing required fields: activity_id, score, time_spent_sec")
        ELSE IF ActivitiesById(activity_id.s) = {} THEN Refuse(404, "Activity not found")
        ELSE Admit

\* the handler up to the activity lookup: the refusal, or none
ReportAdmission(token, body) ==
    IF token \notin Users THEN Refuse(401, "Unauthorized")
    ELSE IF ~body.json THEN Refuse(500, "Unexpected token")
    ELSE IF body.value.t = "null" THEN Refuse(500, "Cannot destructure")
    ELSE
    LET activity_id == Get(body.value, "activity_id")
        score == Get(body.value, "score")
        time_spent_sec == Get(body.value, "time_spent_sec")
    IN  IF ~Truthy(activity_id) \/ score.t = "undefined" \/ ~Truthy(time_spent_sec)
        THEN Refuse(400, "Missing required fields: activity_id, score, time_spent_sec")
        ELSE IF ActivitiesById(activity_id.s) = {} THEN Refuse(404, "Activity not found")
        ELSE Admit

SkillsOfAnySkill(user, skillCode) ==
    { i \in DOMAIN learner_skills : learner_skills[i].user_id = user }

\* learner_skills .eq("user_id", user).eq("skill_code", skillCode)
SkillsOf(user, skillCode) ==
    { i \in DOMAIN learner_skills :
        /\ learner_skills[i].user_id = user
        /\ learner_skills[i].skill_code = skillCode }

ReportFrame ==
    UNCHANGED << mpesaVars, capture, rateVars, chatVars, pushes, session, daily >>

\* authentication, the body, its validation and the activity lookup
BeginReport(r) ==
    /\ reports[r].pc = "idle"
    /\ IF r = 1 THEN TRUE ELSE reports[r - 1].pc # "idle"
    /\ \E req \in ReportRequests :
        LET a == ReportAdmission(req.token, req.body)
            l == [reports[r] EXCEPT !.token = req.token, !.body = req.body,
                                    !.user = IF req.token \in Users THEN req.token ELSE NULL]
        IN  reports' = [reports EXCEPT ![r] =
              IF ~a.ok THEN Reply(l, a.status, FALSE, a.error)
              ELSE LET activity_id == Get(req.body.value, "activity_id").s
                       activity == CHOOSE x \in ActivitiesById(activity_id) : TRUE
                   IN  [l EXCEPT !.pc = "insertReport", !.activity_id = activity_id,
                                 !.skill_code = activity.skill_code,
                                 !.difficulty = activity.difficulty,
                                 !.score = ToNumber(Get(req.body.value, "score"))]]
    /\ UNCHANGED << activity_reports, learner_skills, hydration_cache >>
    /\ ReportFrame

\* the activity_reports insert; reportError answers 500
InsertReport(r) ==
    /\ reports[r].pc = "insertReport"
    /\ \E reportError \in BOOLEAN :
        IF reportError
        THEN /\ reports' = [reports EXCEPT ![r] =
                    Reply(@, 500, FALSE, "Failed to record activity")]
             /\ UNCHANGED activity_reports
        ELSE /\ activity_reports' = Append(activity_reports,
                    [user_id |-> reports[r].user, activity_id |-> reports[r].activity_id,
                     score |-> Get(reports[r].body.value, "score"),
                     time_spent_sec |-> Get(reports[r].body.value, "time_spent_sec")])
             /\ reports' = [reports EXCEPT ![r] =
                    [@ EXCEPT !.pc = "readSkill", !.reported = Len(activity_reports) + 1]]
    /\ UNCHANGED << learner_skills, hydration_cache >>
    /\ ReportFrame

\* the learner_skills select (.single(): a row only when exactly one matches),
\* currentProf and newProf
ReadSkill(r) ==
    /\ reports[r].pc = "readSkill"
    /\ LET found == SkillsOf(reports[r].user, reports[r].skill_code)
           existingSkill == IF Cardinality(found) = 1 THEN CHOOSE i \in found : TRUE ELSE 0
           currentProf == IF existingSkill # 0 THEN learner_skills[existingSkill].proficiency
                          ELSE DefaultProficiency
           newProf == updateProficiency(currentProf, reports[r].score, reports[r].difficulty)
       IN  reports' = [reports EXCEPT ![r] =
              [@ EXCEPT !.pc = "writeSkill", !.existingSkill = existingSkill,
                        !.currentProf = currentProf, !.newProf = newProf]]
    /\ UNCHANGED << activity_reports, learner_skills, hydration_cache >>
    /\ ReportFrame

\* the learner_skills update by id, or the insert
WriteSkill(r) ==
    /\ reports[r].pc = "writeSkill"
    /\ LET id == IF reports[r].existingSkill # 0 THEN reports[r].existingSkill
                 ELSE Len(learner_skills) + 1
       IN  /\ learner_skills' =
                 IF reports[r].existingSkill # 0
                 THEN [learner_skills EXCEPT ![id].proficiency = reports[r].newProf]
                 ELSE Append(learner_skills,
                         [id |-> id, user_id |-> reports[r].user,
                          skill_code |-> reports[r].skill_code,
                          proficiency |-> reports[r].newProf])
           /\ reports' = [reports EXCEPT ![r] = [@ EXCEPT !.pc = "respond", !.wrote = id]]
    /\ UNCHANGED << activity_reports, hydration_cache >>
    /\ ReportFrame

\* the hydration_cache delete and the success response
RespondReport(r) ==
    /\ reports[r].pc = "respond"
    /\ hydration_cache' = hydration_cache \ {reports[r].user}
    /\ reports' = [reports EXCEPT ![r] = Reply(@, 200, TRUE, NULL)]
    /\ UNCHANGED << activity_reports, learner_skills >>
    /\ ReportFrame

InitReport ==
    /\ transactions = << >>
    /\ subscriptions = << >>
    /\ MpesaQuiet
    /\ CaptureQuiet
    /\ RateQuiet
    /\ ChatQuiet
    /\ PushQuiet
    /\ SessionQuiet
    /\ DailyQuiet
    /\ reports = [r \in Reports |-> NoReport]
    /\ activity_reports = << >>
    /\ learner_skills = << >>
    /\ hydration_cache \in SUBSET Users

NextReport ==
    \E r \in Reports :
        \/ BeginReport(r)
        \/ InsertReport(r)
        \/ ReadSkill(r)
        \/ WriteSkill(r)
        \/ RespondReport(r)

SpecReport == InitReport /\ [][NextReport]_vars

(***************************************************************************)
(* Properties of the activity reports                                      *)
(***************************************************************************)
Clamp(x, lo, hi) == IF x < lo THEN lo ELSE IF x > hi THEN hi ELSE x

SampleScores == {-500, -1, 0, 5, 10, 11, 500}
SampleDifficulties == {-400, 0, 3, 8, 10, 600}

UpdateIsClamp ==
    \A current \in 0..100, score \in SampleScores, difficulty \in SampleDifficulties :
        /\ updateProficiency(current, score, difficulty) \in 0..100
        /\ updateProficiency(current, score, difficulty)
              = Clamp(current + 3 * (score - difficulty), 0, 100)

\* C20: updateProficiency returns a value in [0,1] for every current proficiency
\* in [0,1] and every score and difficulty, equal to
\* clamp(current + 0.3 * (score - difficulty), 0, 1), and every proficiency stored
\* in learner_skills lies in [0,1]
C20_ProficiencyInUnitInterval ==
    /\ UpdateIsClamp
    /\ \A i \in DOMAIN learner_skills :
          /\ learner_skills[i].proficiency >= 0
          /\ learner_skills[i].proficiency <= 100

\* an answered report that updated an existing row with a value cut down to 1
C20_Witness ==
    \E r \in Reports :
        /\ reports[r].status = 200
        /\ reports[r].existingSkill # 0
        /\ reports[r].wrote = reports[r].existingSkill
        /\ reports[r].currentProf + 3 * (reports[r].score - reports[r].difficulty) > 100
        /\ learner_skills[reports[r].wrote].proficiency = 100

(***************************************************************************)
(* Reports handled one after another                                       *)
(***************************************************************************)
\* a request that arrives when no other request is being handled
BeginReportAlone(r) ==
    /\ \A q \in Reports : reports[q].pc \in {"idle", "done"}
    /\ BeginReport(r)

NextReportSequential ==
    \E r \in Reports :
        \/ BeginReportAlone(r)
        \/ InsertReport(r)
        \/ ReadSkill(r)
        \/ WriteSkill(r)
        \/ RespondReport(r)

SpecReportSequential == InitReport /\ [][NextReportSequential]_vars

SkillCodes == { a.skill_code : a \in StudyActivities }

\* the requests (in order of arrival) whose skill write has been made
Applied(user, skillCode) ==
    { r \in Reports : /\ reports[r].wrote # 0
                      /\ reports[r].user = user
                      /\ reports[r].skill_code = skillCode }

RECURSIVE Folded(_, _, _)
\* updateProficiency folded over the applied reports among the first k requests
Folded(user, skillCode, k) ==
    IF k = 0 THEN DefaultProficiency
    ELSE IF k \in Applied(user, skillCode)
         THEN updateProficiency(Folded(user, skillCode, k - 1),
                                reports[k].score, reports[k].difficulty)
         ELSE Folded(user, skillCode, k - 1)

RowsFor(user, skillCode) ==
    { i \in DOMAIN learner_skills : /\ learner_skills[i].user_id = user
                                    /\ learner_skills[i].skill_code = skillCode }

\* C21: when reports are handled one after another, a (user, skill_code) pair with
\* n >= 1 applied reports has exactly one learner_skills row, created by the first
\* of them and updated by the later ones, and its proficiency is updateProficiency
\* folded over the n (score, difficulty) pairs starting from 0.5; a pair with no
\* report has no row
C21_SequentialFold ==
    \A user \in Users, skillCode \in SkillCodes :
        IF Applied(user, skillCode) = {}
        THEN RowsFor(user, skillCode) = {}
        ELSE /\ Cardinality(RowsFor(user, skillCode)) = 1
             /\ \A i \in RowsFor(user, skillCode) :
                   learner_skills[i].proficiency = Folded(user, skillCode, MaxReports)
             /\ \A r \in Applied(user, skillCode) :
                   /\ reports[r].wrote \in RowsFor(user, skillCode)
                   /\ (reports[r].existingSkill = 0)
                         <=> (\A q \in Applied(user, skillCode) : q >= r)

\* two reports of one user for one skill, the second one updating the first one's row
C21_Witness ==
    \E r, q \in Reports :
        /\ r < q
        /\ reports[r].status = 200 /\ reports[q].status = 200
        /\ reports[r].user = reports[q].user
        /\ reports[r].skill_code = reports[q].skill_code
        /\ reports[r].existingSkill = 0
        /\ reports[q].existingSkill = reports[r].wrote
        /\ learner_skills[reports[q].wrote].proficiency
              = updateProficiency(updateProficiency(DefaultProficiency, reports[r].score,
                                                    reports[r].difficulty),
                                  reports[q].score, reports[q].difficulty)
        /\ learner_skills[reports[q].wrote].proficiency \notin {0, 100, DefaultProficiency}

(***************************************************************************)
(* The activity_reports log                                                *)
(***************************************************************************)
\* a request answered with success appended one row of its own, for its user
OwnRowPerSuccess ==
    /\ \A r \in Reports :
          reports[r].status = 200 =>
             /\ reports[r].reported \in DOMAIN activity_reports
             /\ activity_reports[reports[r].reported].user_id = reports[r].token
             /\ activity_reports[reports[r].reported].activity_id = reports[r].activity_id
             /\ activity_reports[reports[r].reported].score
                   = Get(reports[r].body.value, "score")
    /\ \A r, q \in Reports :
          (r # q /\ reports[r].reported # 0) => reports[r].reported # reports[q].reported
    /\ Len(activity_reports) = Cardinality({ r \in Reports : reports[r].reported # 0 })

\* a request answered 401, 400 or 404 appended nothing and wrote no learner_skills row
RejectedWritesNothing ==
    \A r \in Reports :
        reports[r].status \in {401, 400, 404} =>
            /\ reports[r].reported = 0
            /\ reports[r].wrote = 0

\* a score that is present (0 and null included) is not the reason of a 400
PresentScoreAccepted ==
    \A r \in Reports :
        (/\ reports[r].status = 400
         /\ Get(reports[r].body.value, "score").t # "undefined")
            => \/ ~Truthy(Get(reports[r].body.value, "activity_id"))
               \/ ~Truthy(Get(reports[r].body.value, "time_spent_sec"))

\* a step keeps every row of activity_reports and appends at most one; a step that
\* changes learner_skills or appends to activity_reports is taken by a request that
\* is not answered yet
AppendOnlyStep ==
    /\ Len(activity_reports') \in {Len(activity_reports), Len(activity_reports) + 1}
    /\ \A i \in DOMAIN activity_reports : activity_reports'[i] = activity_reports[i]
    /\ (activity_reports' # activity_reports \/ learner_skills' # learner_skills)
          => \E r \in Reports : /\ reports[r].pc \in {"insertReport", "writeSkill"}
                                /\ reports'[r].pc # reports[r].pc
                                /\ reports[r].status = 0

\* C22: activity_reports is append-only: each request answered with success appended
\* exactly one row for the authenticated user, no step changes or removes a row,
\* a request answered 401, 400 or 404 appends no row and changes no learner_skills
\* row, and a score of 0 is accepted as present
C22_AppendOnlyReports ==
    /\ [](OwnRowPerSuccess /\ RejectedWritesNothing /\ PresentScoreAccepted)
    /\ [][AppendOnlyStep]_vars

\* a report with score 0 answered with success and logged, next to a rejected request
C22_Witness ==
    \E r, q \in Reports :
        /\ reports[r].status = 200
        /\ Get(reports[r].body.value, "score") = JNum(0)
        /\ activity_reports[reports[r].reported].score = JNum(0)
        /\ reports[q].status \in {401, 400, 404}
        /\ Len(activity_reports) = 1

(***************************************************************************)
(* M-Pesa callback: a handler that stops between its two updates           *)
(***************************************************************************)
\* the handler's run ends after the payment_transactions update and before the
\* subscriptions update; nothing is answered
Stop(d) ==
    /\ handlers[d].pc = "updateSub"
    /\ handlers' = [handlers EXCEPT ![d].pc = "stopped"]
    /\ UNCHANGED << env, transactions, subscriptions, txWriters, subWriters, capture,
                    rateVars, restVars >>

NextStop ==
    \E d \in Deliveries :
        \/ Receive(d)
        \/ Find(d)
        \/ UpdateTransaction(d)
        \/ UpdateSubscription(d)
        \/ Stop(d)

\* the sandbox deployment, where every sender passes the origin check
InitStop ==
    /\ Init
    /\ env = "sandbox"

SpecStop == InitStop /\ [][NextStop]_vars

\* a handler stopped between the writes of transaction t, and no handler that passed
\* the idempotency check for t is still running
Stranded(t) ==
    /\ transactions[t].status = "completed"
    /\ subscriptions[transactions[t].subscription_id].status = "pending"
    /\ \E d \in Deliveries : /\ handlers[d].pc = "stopped"
                             /\ handlers[d].transaction.id = t
    /\ \A d \in Deliveries :
          handlers[d].pc \in {"updateTx", "updateSub"} => handlers[d].transaction.id # t

StoppedAlone(d) ==
    /\ handlers[d].pc = "stopped"
    /\ handlers[d].ResultCode = 0
    /\ txWriters[handlers[d].transaction.id] = {d}
    /\ subWriters[handlers[d].transaction.subscription_id] = {}

\* C23: a success callback that stops after the transaction update and before the
\* subscription update leaves the transaction 'completed' with its subscription
\* 'pending', and from then on no callback for that CheckoutRequestID changes the
\* subscription: each one is answered "Already processed"
C23_StrandedForGood ==
    /\ [](\A d \in Deliveries :
            StoppedAlone(d) =>
               /\ transactions[handlers[d].transaction.id].status = "completed"
               /\ subscriptions[handlers[d].transaction.subscription_id].status = "pending")
    /\ [][\A t \in TxIds :
            Stranded(t) =>
               /\ Stranded(t)'
               /\ subscriptions'[transactions[t].subscription_id]
                     = subscriptions[transactions[t].subscription_id]
               /\ \A d \in Deliveries :
                     (/\ handlers[d].pc = "find"
                      /\ handlers'[d].pc # "find"
                      /\ handlers'[d].transaction.id = t)
                        => handlers'[d].response = AlreadyProcessed]_vars

\* the transaction is completed, the subscription pending, and a later callback for
\* the same CheckoutRequestID has been answered "Already processed"
C23_Witness ==
    \E d, e \in Deliveries :
        /\ StoppedAlone(d)
        /\ Stranded(handlers[d].transaction.id)
        /\ handlers[e].pc = "done"
        /\ handlers[e].ResultCode = 0
        /\ handlers[e].transaction.id = handlers[d].transaction.id
        /\ handlers[e].transaction.status = "completed"
        /\ handlers[e].response = AlreadyProcessed
        /\ handlers[e].writes = 0

(***************************************************************************)
(* The state path of transactions and subscriptions                        *)
(***************************************************************************)
TransactionPath ==
    { << "initiated", "pending" >>, << "pending", "completed" >>, << "pending", "failed" >> }

SubscriptionPath ==
    { << "pending", "active" >>, << "pending", "cancelled" >> }

\* C24: a transaction is created 'initiated' or 'pending', each later change of its
\* status is initiated -> pending, pending -> completed or pending -> failed (so
\* 'completed' and 'failed' are terminal), and a subscription's status changes only
\* pending -> active or pending -> cancelled
C24_StatePath ==
    [][/\ \A id \in DOMAIN transactions' :
            IF id \in DOMAIN transactions
            THEN \/ transactions'[id].status = transactions[id].status
                 \/ << transactions[id].status, transactions'[id].status >>
                       \in TransactionPath
            ELSE transactions'[id].status \in {"initiated", "pending"}
       /\ \A s \in DOMAIN subscriptions' :
            s \in DOMAIN subscriptions =>
               \/ subscriptions'[s].status = subscriptions[s].status
               \/ << subscriptions[s].status, subscriptions'[s].status >>
                     \in SubscriptionPath]_vars

(***************************************************************************)
(* M-Pesa callback: transaction and subscription under interleaving        *)
(***************************************************************************)
AllFinished == \A d \in Deliveries : handlers[d].pc \in {"idle", "done"}

\* C25: once all handlers have finished, a transaction is 'completed' exactly when
\* its subscription is 'active' and 'failed' exactly when it is 'cancelled', for any
\* interleaving of callbacks with one CheckoutRequestID and different ResultCodes;
\* and no write turns an 'active' subscription into 'cancelled'
C25_ConsistentUnderInterleaving ==
    /\ [](AllFinished =>
            \A t \in TxIds :
               LET s == transactions[t].subscription_id IN
               /\ transactions[t].status = "completed" <=> subscriptions[s].status = "active"
               /\ transactions[t].status = "failed" <=> subscriptions[s].status = "cancelled")
    /\ [][\A s \in SubIds :
            subscriptions[s].status = "active" => subscriptions'[s].status # "cancelled"]_vars

(***************************************************************************)
(* PayPal capture: a further capture request for a captured order          *)
(***************************************************************************)
\* the subscription a capture by u1 of the monthly order left
CapturedSubscription(now) ==
    [user_id |-> "u1", plan_type |-> "monthly", status |-> "active",
     amount_kes |-> PaypalAmounts["monthly"], payment_method |-> "paypal",
     transaction_id |-> "CAPTURE1", mpesa_receipt_number |-> NULL,
     starts_at |-> toISOString(now),
     expires_at |-> toISOString(PaypalExpiresAt("monthly", now))]

\* the transaction after that capture
CapturedTransaction ==
    [InitiatedTransaction("u1", PaypalOrder, PaypalAmounts["monthly"]) EXCEPT
        !.status = "completed", !.result_code = "0", !.result_desc = "Payment successful",
        !.mpesa_receipt_number = "CAPTURE1", !.subscription_id = 1]

\* the state a completed capture request of the owner leaves
CapturedOnce ==
    /\ transactions = [id \in {"ptx1"} |-> CapturedTransaction]
    /\ \E now \in Instants : subscriptions = << CapturedSubscription(now) >>

\* the order has been captured once; the next capture request arrives
InitRecapture ==
    /\ CapturedOnce
    /\ MpesaQuiet
    /\ CaptureQuiet
    /\ RateQuiet
    /\ RestQuiet

SpecRecapture == InitRecapture /\ [][NextPaypal]_vars

\* C26: a PayPal order credits its owner at most once: at most one subscription row
\* is inserted for it, its transaction row is updated at most once, and a capture
\* request for an order whose transaction is already 'completed' inserts no further
\* subscription
C26_CreditedOnce ==
    /\ [](Len(subscriptions) <= 1)
    /\ [][\A id \in DOMAIN transactions :
            transactions[id].status = "completed" => transactions'[id] = transactions[id]]_vars

(***************************************************************************)
(* PayPal capture: what the subscription is for                            *)
(***************************************************************************)
\* C27: the subscription a capture request inserts carries the amount stored with
\* the order's transaction when the order was created and the plan that amount was
\* validated for, whatever plan_type and amount_kes the capture request carries
C27_SubscriptionAsPaid ==
    \A c \in Inserters :
        \A id \in StoredFor(capture[c].order_id) :
            LET row == subscriptions[capture[c].subscription_id] IN
            /\ row.amount_kes = transactions[id].amount_kes
            /\ PaypalAmounts[row.plan_type] = transactions[id].amount_kes

(***************************************************************************)
(* Chat endpoint: what a checkRateLimit call touches                       *)
(***************************************************************************)
WellFormedMap ==
    \A k \in Identifiers :
        rateLimitMap[k].present =>
            /\ rateLimitMap[k].count >= 1
            /\ rateLimitMap[k].count <= RATE_LIMIT

\* the step is a call with key k
CalledWith(k) == ordinal'[k] # ordinal[k]

\* C28: every entry of the map has 1 <= count <= 50; a call that returns false leaves
\* the whole map as it was, a call that returns true changes the entry of its key,
\* and a call with key k leaves every other key's entry as it was; the map changes
\* in no other step
C28_OnlyOwnKey ==
    /\ []WellFormedMap
    /\ [][/\ \A k \in Identifiers :
               CalledWith(k) =>
                  /\ \A j \in Identifiers \ {k} : rateLimitMap'[j] = rateLimitMap[j]
                  /\ lastCall'.identifier = k
                  /\ ~lastCall'.allowed => rateLimitMap' = rateLimitMap
                  /\ lastCall'.allowed => rateLimitMap'[k] # rateLimitMap[k]
          /\ rateLimitMap' # rateLimitMap => \E k \in Identifiers : CalledWith(k)]_vars

\* a call has just been denied, its key's entry is as it was before the call (full,
\* with its resetAt), and another key has an entry of its own
C28_Witness ==
    /\ lastCall.made
    /\ ~lastCall.allowed
    /\ rateLimitMap[lastCall.identifier] = lastCall.before
    /\ lastCall.before.count = RATE_LIMIT
    /\ \E j \in Identifiers \ {lastCall.identifier} :
          /\ rateLimitMap[j].present
          /\ rateLimitMap[j].count < RATE_LIMIT

(***************************************************************************)
(* Overlapping activity reports of one user for one skill                  *)
(***************************************************************************)
AllAnswered == \A r \in Reports : reports[r].pc \in {"idle", "done"}

RECURSIVE FoldsOver(_, _)
\* the results of updateProficiency folded over the reports in S, in every order
FoldsOver(S, start) ==
    IF S = {} THEN {start}
    ELSE UNION { { updateProficiency(p, reports[r].score, reports[r].difficulty) :
                     p \in FoldsOver(S \ {r}, start) } : r \in S }

\* C29: for any interleaving of the requests, learner_skills holds at most one row
\* per (user, skill_code), and once all requests are answered a pair with reports has
\* exactly one row whose proficiency is updateProficiency applied for every one of
\* its reports, in some order, starting from 0.5
C29_OneRowNoLostUpdate ==
    \A user \in Users, skillCode \in SkillCodes :
        /\ Cardinality(RowsFor(user, skillCode)) <= 1
        /\ (AllAnswered /\ Applied(user, skillCode) # {})
              => \E i \in RowsFor(user, skillCode) :
                    learner_skills[i].proficiency
                       \in FoldsOver(Applied(user, skillCode), DefaultProficiency)

(***************************************************************************)
(* Free daily questions (useDailyQuestionLimit)                            *)
(***************************************************************************)
FREE_DAILY_LIMIT == 5

MaxQuestions == 7       \* incrementUsage calls per behaviour
MaxDays == 2            \* the date changes up to MaxDays times

\* getStoredUsage() on day today: the stored usage, or a fresh one on a new day
getStoredUsage(stored, today) ==
    IF stored.present /\ stored.date = today THEN stored
    ELSE [present |-> TRUE, date |-> today, count |-> 0]

\* saveUsage(count) on day today
saveUsage(count, today) == [present |-> TRUE, date |-> today, count |-> count]

\* the effect on [isPremium, getStoredUsage]
LoadUsage(d, isPremium) ==
    LET usage == getStoredUsage(d.stored, d.today) IN
    [d EXCEPT !.isPremium = isPremium,
              !.questionsUsed = usage.count,
              !.canAskQuestion = isPremium \/ usage.count < FREE_DAILY_LIMIT]

\* the hook's return value
remainingQuestions == Max(0, FREE_DAILY_LIMIT - daily.questionsUsed)

DailyFrame ==
    UNCHANGED << mpesaVars, capture, rateVars, chatVars, pushes, session, reportVars >>

\* the page is loaded again: fresh state, then the effect
Mount ==
    /\ daily' = LoadUsage([daily EXCEPT !.questionsUsed = 0, !.canAskQuestion = TRUE],
                          daily.isPremium)
    /\ DailyFrame

\* isPremium changes; the effect runs again
SetPremium(isPremium) ==
    /\ isPremium # daily.isPremium
    /\ daily' = LoadUsage(daily, isPremium)
    /\ DailyFrame

incrementUsage ==
    /\ daily.calls < MaxQuestions
    /\ LET newCount == daily.questionsUsed + 1 IN
       daily' = [daily EXCEPT !.questionsUsed = newCount,
                              !.stored = saveUsage(newCount, daily.today),
                              !.canAskQuestion = daily.isPremium \/ newCount < FREE_DAILY_LIMIT,
                              !.countedToday = @ + 1,
                              !.calls = @ + 1]
    /\ DailyFrame

\* midnight (UTC) passes while the hook stays mounted
DayChange ==
    /\ daily.today < MaxDays
    /\ daily' = [daily EXCEPT !.today = @ + 1, !.countedToday = 0]
    /\ DailyFrame

InitDaily ==
    /\ transactions = << >>
    /\ subscriptions = << >>
    /\ MpesaQuiet
    /\ CaptureQuiet
    /\ RateQuiet
    /\ ChatQuiet
    /\ PushQuiet
    /\ SessionQuiet
    /\ ReportQuiet
    /\ \E isPremium \in BOOLEAN : daily = LoadUsage(NoDaily, isPremium)

NextDaily ==
    \/ Mount
    \/ \E isPremium \in BOOLEAN : SetPremium(isPremium)
    \/ incrementUsage
    \/ DayChange

SpecDaily == InitDaily /\ [][NextDaily]_vars

\* C30: for a non-premium user canAskQuestion holds exactly when fewer than 5
\* questions were counted on the current (UTC) day and remainingQuestions is
\* max(0, 5 - questions counted today), the count starting from 0 when the date
\* changes, also while the hook stays mounted; for a premium user canAskQuestion holds
C30_FivePerDay ==
    IF daily.isPremium THEN daily.canAskQuestion
    ELSE /\ daily.canAskQuestion <=> daily.countedToday < FREE_DAILY_LIMIT
         /\ remainingQuestions = Max(0, FREE_DAILY_LIMIT - daily.countedToday)
====
